---- MODULE Spec2Model ----
(***************************************************************************)
(* Session lifecycle of the browserbase client: one session object         *)
(* (BaseSession / SyncSession / AsyncSession and the driver subclasses),   *)
(* used either directly or through the scoped session manager of           *)
(* BrowserbaseCore and the Playwright / Selenium adapters.                 *)
(***************************************************************************)
EXTENDS Integers, Sequences, FiniteSets, TLC

\* ------------------------------------------------------------------ bounds
\* The local clock runs over 0..MaxTime
MaxTime == 2
\* At most MaxRequests HTTP requests are recorded per session object
MaxRequests == 3
\* A list response holds at most MaxListed sessions
MaxListed == 2
\* At most MaxAuxCalls auxiliary requests (list, downloads, debug, logs,
\* recording) are made per behaviour
MaxAuxCalls == 1
\* How many requests two session objects used side by side may send in all
MaxPairRequests == 2

\* ------------------------------------------------------- values and domains
\* Python's None where a record (a response, a datetime, a JSON body) may stand
None == [none |-> TRUE]
\* No exception was raised
NoExc == "NoExc"

\* n times the character c
Repeat(c, n) == [i \in 1..n |-> c]

\* tests/conftest.py: the API key and the project id the tests construct the
\* client with; a project id is the sequence of its characters
API_KEY == "mock-api-key-12345"
PROJECT_ID ==
    Repeat("1", 8) \o <<"-">> \o Repeat("0", 4) \o <<"-">> \o Repeat("0", 4)
      \o <<"-">> \o Repeat("0", 4) \o <<"-">> \o <<"a", "c", "d", "e">>
      \o Repeat("0", 8)

\* core.py: the names of the two environment variables
ENVIRON_API_KEY == "BROWSERBASE_API_KEY"
ENVIRON_PROJECT_ID == "BROWSERBASE_PROJECT_ID"

\* An Optional[str] that is set: None otherwise
Str(s) == [str |-> s]

\* base_session.py: the one base-URL constant the module defines
SESSIONS_URL == "https://www.browserbase.com/v1/sessions"
\* async_session.py / core.py import this name from base_session, which does
\* not define it: the name resolves to nothing
SESSIONS_API_URL == "<SESSIONS_API_URL: not defined in base_session>"

SessionIds == {"s1", "s2"}
Statuses == {"RUNNING", "COMPLETED"}

\* The instants a server-sent expiresAt may name
ExpiryTimes == {1}
\* A datetime: a point of the clock, timezone-aware or naive
DateTimes == [t : ExpiryTimes, aware : BOOLEAN]

\* The instants (in seconds) a server-sent createdAt, startedAt and endedAt
\* may name
CreatedTimes == {0}
StartedTimes == {1}
EndedTimes == {1201}
\* The datetimes at the given instants
DateTimesAt(times) == [t : times, aware : BOOLEAN]

\* The server writes all the timestamps of one response in one format, so
\* they parse to datetimes that are all aware or all naive
SameZone(r) ==
    /\ r.created_at.aware = r.started_at.aware
    /\ r.ended_at # None => r.ended_at.aware = r.started_at.aware
    /\ r.expires_at # None => r.expires_at.aware = r.started_at.aware

\* api_models.SessionResponse (the fields the session reads)
SessionResponse ==
    {r \in [id : SessionIds, status : Statuses,
            created_at : DateTimesAt(CreatedTimes),
            started_at : DateTimesAt(StartedTimes),
            ended_at : DateTimesAt(EndedTimes) \cup {None},
            expires_at : DateTimes \cup {None}] : SameZone(r)}

\* What the server answers to a request: a parsable session, a non-success
\* status, or a success status with a body that does not parse
HttpOk(bodies) == [kind : {"ok"}, body : bodies]
HttpFailures == {[kind |-> "http_error", body |-> None],
                 [kind |-> "unparsable", body |-> None]}

\* The answers to a create request: a new running session
CreateOutcomes ==
    HttpOk({r \in SessionResponse : r.status = "RUNNING" /\ r.ended_at = None})
      \cup HttpFailures

\* The answers to a release request for session sid: that session, completed
ReleaseOutcomes(sid) ==
    HttpOk({r \in SessionResponse :
              r.status = "COMPLETED" /\ r.id = sid /\ r.ended_at # None})
      \cup HttpFailures

Styles == {"sync", "async"}
Scopes == {"bare", "listed", "plain", "playwright", "selenium", "page"}

VARIABLES
    api_key,        \* BrowserbaseCore._api_key
    project_id,     \* BrowserbaseCore._project_id
    given,          \* what the client was constructed from: the arguments
                    \* and the environment
    returned,       \* the value the last accessor / listing call returned
    enable_proxy,   \* BaseSession._enable_proxy
    options_given,  \* the objects the caller built the session from
    session_options,\* BaseSession._session_options
    file_io,        \* what was written to the file handle of the caller
    objects,        \* where two session objects are used: the attributes
                    \* of the class and those of each object
    scope,          \* how the session object is used
    style,          \* SyncSession or AsyncSession
    api_response,   \* BaseSession._api_response
    implicit_end,   \* BaseSession._implicit_end
    driver,         \* _page / _driver of the driver sessions
    now,            \* the local clock, datetime.now()
    requests,       \* the HTTP requests issued so far, in order
    pc,             \* "new", "body" (yielded / in use), "done"; "client"
                    \* where the client itself is used
    last,           \* the last operation, what it returned, raised and sent
    seen_true,      \* a read of implicit_end has returned True since the
                    \* caller last assigned it
    overridden      \* the caller has assigned implicit_end

vars == <<api_key, project_id, given, returned, enable_proxy, options_given,
          session_options, file_io, objects, scope, style, api_response, implicit_end, driver, now, requests,
          pc, last, seen_true, overridden>>

\* ------------------------------------------------------ client construction

\* Python truthiness of an Optional[str]: neither None nor empty
Truthy(x) == x # None /\ Len(x.str) > 0

\* An or that prefers its second operand
Or_SecondFirst(a, b) == IF Truthy(b) THEN b ELSE a

\* a or b on Optional[str]
Or(a, b) == IF Truthy(a) THEN a ELSE b

\* str.replace(sub, ""): s without the occurrences of sub, left to right
RECURSIVE RemoveAll(_, _)
RemoveAll(s, sub) ==
    IF Len(s) < Len(sub) THEN s
    ELSE IF SubSeq(s, 1, Len(sub)) = sub
         THEN RemoveAll(SubSeq(s, Len(sub) + 1, Len(s)), sub)
         ELSE <<Head(s)>> \o RemoveAll(Tail(s), sub)

\* str.strip("{}"): s without its leading and trailing braces
RECURSIVE StripBraces(_)
StripBraces(s) ==
    IF s = <<>> THEN s
    ELSE IF Head(s) \in {"{", "}"} THEN StripBraces(Tail(s))
    ELSE IF s[Len(s)] \in {"{", "}"} THEN StripBraces(SubSeq(s, 1, Len(s) - 1))
    ELSE s

HexDigits == {"0", "1", "2", "3", "4", "5", "6", "7", "8", "9",
              "a", "b", "c", "d", "e", "f", "A", "B", "C", "D", "E", "F"}

\* uuid.UUID(text) does not raise ValueError: without "urn:", "uuid:", the
\* outer braces and the hyphens, text is 32 hexadecimal digits
IsUUID(text) ==
    LET hex == RemoveAll(StripBraces(RemoveAll(RemoveAll(text,
                   <<"u", "r", "n", ":">>), <<"u", "u", "i", "d", ":">>)), <<"-">>)
    IN  Len(hex) = 32 /\ \A i \in DOMAIN hex : hex[i] \in HexDigits

\* The messages of the ValueErrors _get_the_settings raises, in their parts
MissingApiKeyMessage ==
    <<"The Browserbase API key was not passed to the Browserbase init, nor could it be found in the ",
      ENVIRON_API_KEY, " environment variable.">>
BadParameterMessage ==
    <<"The UUID from the ", "project_id parameter", " is invalid.">>
MissingProjectIdMessage ==
    <<"The Browserbase project ID was not passed to the Browserbase init, nor could it be found in the ",
      ENVIRON_PROJECT_ID, " environment variable.">>
BadEnvironMessage ==
    <<"The UUID from the ", ENVIRON_PROJECT_ID,
      " environment variable is invalid.">>

\* The two attributes of a client before they are set
NoApiKey == ""
NoProjectId == <<>>

Failed(message) ==
    [exc |-> "ValueError", message |-> message, api_key |-> NoApiKey,
     project_id |-> NoProjectId]
Settled(key, pid) ==
    [exc |-> NoExc, message |-> <<>>, api_key |-> key.str,
     project_id |-> pid.str]

\* A _get_the_settings that looks for the project id in the environment
\* first
get_the_settings_EnvironFirst(arg_api_key, arg_project_id, environ) ==
    LET key == Or(arg_api_key, environ.api_key)
        pid == environ.project_id
    IN  IF ~Truthy(key) THEN Failed(MissingApiKeyMessage)
        ELSE IF Truthy(pid)
             THEN IF IsUUID(pid.str) THEN Settled(key, pid)
                  ELSE Failed(BadEnvironMessage)
        ELSE IF ~Truthy(arg_project_id) THEN Failed(MissingProjectIdMessage)
        ELSE IF ~IsUUID(arg_project_id.str) THEN Failed(BadParameterMessage)
        ELSE Settled(key, arg_project_id)

\* BrowserbaseCore._get_the_settings(api_key, project_id), with environ the
\* values os.environ.get gives for the two variables
get_the_settings(arg_api_key, arg_project_id, environ) ==
    LET key == Or(arg_api_key, environ.api_key)
        pid == environ.project_id
    IN  IF ~Truthy(key) THEN Failed(MissingApiKeyMessage)
        ELSE IF Truthy(arg_project_id)
             THEN IF IsUUID(arg_project_id.str)
                  THEN Settled(key, arg_project_id)
                  ELSE Failed(BadParameterMessage)
        ELSE IF ~Truthy(pid) THEN Failed(MissingProjectIdMessage)
        ELSE IF ~IsUUID(pid.str) THEN Failed(BadEnvironMessage)
        ELSE Settled(key, pid)

\* BrowserbaseCore.__init__
BrowserbaseCoreInit(g) ==
    get_the_settings(g.api_key, g.project_id, g.environ)

\* BrowserbaseCore.project_id (getter)
ProjectIdGet(pid) ==
    IF pid = NoProjectId THEN [exc |-> "ValueError", ret |-> None]
    ELSE [exc |-> NoExc, ret |-> Str(pid)]

\* The API keys and the project ids a client may be constructed from, as
\* arguments or in the environment: unset, empty, and texts that are UUIDs
\* (plain, without hyphens, as a URN in braces) or are not (no hexadecimal
\* text, a digit short, a letter that is no hexadecimal digit)
ArgApiKeys == {None, Str(""), Str(API_KEY), Str("key &=+1")}
EnvApiKeys == {None, Str(""), Str("key-of-the-environment")}
ProjectIdTexts ==
    {None, Str(<<>>), Str(PROJECT_ID), Str(Repeat("2", 32)),
     Str(<<"{", "u", "r", "n", ":", "u", "u", "i", "d", ":">> \o PROJECT_ID
           \o <<"}">>),
     Str(<<"n", "o", "t", "-", "a", "-", "U", "U", "I", "D">>),
     Str(Repeat("3", 31)), Str(Repeat("4", 31) \o <<"g">>)}
Givens ==
    [api_key : ArgApiKeys, project_id : ProjectIdTexts,
     environ : [api_key : EnvApiKeys, project_id : ProjectIdTexts]]

\* What the tests construct the client from: both values as arguments
FixtureGiven ==
    [api_key |-> Str(API_KEY), project_id |-> Str(PROJECT_ID),
     environ |-> [api_key |-> None, project_id |-> None]]

\* ------------------------------------------------------------ pure helpers

\* A get_http_headers that gives the API key only along with a session id
get_http_headers_KeyWithSessionOnly(has_session, sid) ==
    IF has_session /\ sid # ""
    THEN {<<"x-bb-api-key", api_key>>, <<"session-id", sid>>}
    ELSE {}

\* BrowserbaseCore.get_http_headers(session): the API key, and the session id
\* when a session with a non-empty id is passed
get_http_headers(has_session, sid) ==
    {<<"x-bb-api-key", api_key>>}
      \cup (IF has_session /\ sid # "" THEN {<<"session-id", sid>>} ELSE {})

\* The sessions base URL each module resolves
BaseUrl(style_) == IF style_ = "sync" THEN SESSIONS_URL ELSE SESSIONS_API_URL

\* BaseSession.id
Id(rec) == IF rec = None THEN "" ELSE rec.id

\* BaseSession.expires_at
ExpiresAt(rec) == IF rec = None THEN None ELSE rec.expires_at

\* BrowserbaseConnection.get_remote_connection_headers: the headers of the
\* client for this session, added to those of Selenium
get_remote_connection_headers(rec) == get_http_headers(TRUE, Id(rec))

\* core.py: the address of the Chrome DevTools Protocol endpoint
SESSION_CDP_URL == "wss://connect.browserbase.com"

\* urllib.parse: the characters quote_plus never escapes
AlwaysSafe ==
    "ABCDEFGHIJKLMNOPQRSTUVWXYZabcdefghijklmnopqrstuvwxyz0123456789_.-~"

\* The reserved characters of a URL and the space, and the two hexadecimal
\* digits of each one's code
Reserved == " !#$%&()*+,/:;=?@"
ReservedHex == <<"20", "21", "23", "24", "25", "26", "28", "29", "2A", "2B",
                 "2C", "2F", "3A", "3B", "3D", "3F", "40">>

\* The position of the first character c of text at or after position i, 0
\* when there is none
RECURSIVE Find(_, _, _)
Find(c, text, i) ==
    IF i > Len(text) THEN 0
    ELSE IF SubSeq(text, i, i) = c THEN i
    ELSE Find(c, text, i + 1)

\* The position of character c in text, 0 when it is not there
IndexOf(c, text) == Find(c, text, 1)

\* The pieces of text between the occurrences of the character sep
RECURSIVE SplitOn(_, _)
SplitOn(text, sep) ==
    LET at == IndexOf(sep, text)
    IN  IF at = 0 THEN <<text>>
        ELSE <<SubSeq(text, 1, at - 1)>>
               \o SplitOn(SubSeq(text, at + 1, Len(text)), sep)

\* The safe characters as a set, and the escape of each reserved one
SafeChars == {SubSeq(AlwaysSafe, i, i) : i \in 1..Len(AlwaysSafe)}
Escapes ==
    [c \in {SubSeq(Reserved, i, i) : i \in 1..Len(Reserved)} |->
       "%" \o ReservedHex[IndexOf(c, Reserved)]]

\* urllib.parse.quote_plus of one character: a space becomes "+", a safe
\* character stays, any other becomes %XX
QuoteChar(c) ==
    IF c = " " THEN "+"
    ELSE IF c \in SafeChars THEN c
    ELSE Escapes[c]

\* urllib.parse.quote_plus
RECURSIVE quote_plus(_)
quote_plus(text) ==
    IF text = "" THEN ""
    ELSE QuoteChar(SubSeq(text, 1, 1)) \o quote_plus(SubSeq(text, 2, Len(text)))

\* urllib.parse.urlencode of a dict, given as its items in insertion order
RECURSIVE urlencode(_)
urlencode(items) ==
    IF items = <<>> THEN ""
    ELSE quote_plus(items[1][1]) \o "=" \o quote_plus(items[1][2])
           \o (IF Len(items) > 1 THEN "&" ELSE "") \o urlencode(Tail(items))

\* dict[key] = value: an existing key keeps its place, a new one goes last
DictSet(items, key, value) ==
    IF \E i \in DOMAIN items : items[i][1] = key
    THEN [i \in DOMAIN items |->
            IF items[i][1] = key THEN <<key, value>> ELSE items[i]]
    ELSE Append(items, <<key, value>>)

\* A get_cdp_url that names the session only when its id is not empty
get_cdp_url_NoEmptySessionId(has_session, sid, kwargs) ==
    LET with_key == DictSet(kwargs, "apiKey", api_key)
        with_id == IF has_session /\ sid # ""
                   THEN DictSet(with_key, "sessionId", sid) ELSE with_key
    IN  SESSION_CDP_URL \o "?" \o urlencode(with_id)

\* BrowserbaseCore.get_cdp_url(session, **kwargs): a session object is always
\* true, so its id is added whenever a session is passed
get_cdp_url(has_session, sid, kwargs) ==
    LET with_key == DictSet(kwargs, "apiKey", api_key)
        with_id == IF has_session
                   THEN DictSet(with_key, "sessionId", sid) ELSE with_key
    IN  SESSION_CDP_URL \o "?" \o urlencode(with_id)

\* datetime.min, the sentinel created_at gives for a session without a record
DatetimeMin == [min |-> TRUE]

\* A created_at that is absent, like the other timestamps, without a record
CreatedAt_AbsentWithoutRecord(rec) ==
    IF rec = None THEN None ELSE rec.created_at

\* BaseSession.created_at
CreatedAt(rec) == IF rec = None THEN DatetimeMin ELSE rec.created_at

\* BaseSession.started_at
StartedAt(rec) == IF rec = None THEN None ELSE rec.started_at

\* BaseSession.ended_at
EndedAt(rec) == IF rec = None THEN None ELSE rec.ended_at

\* BaseSession.status
Status(rec) == IF rec = None THEN None ELSE Str(rec.status)

\* later - earlier on datetimes: a timedelta, or TypeError when only one of
\* the two is timezone-aware
Minus(later, earlier) ==
    IF later.aware # earlier.aware THEN [raises |-> "TypeError"]
    ELSE [seconds |-> later.t - earlier.t]

\* A duration counted from the creation of the session
Duration_SinceCreation(rec) ==
    IF StartedAt(rec) = None \/ EndedAt(rec) = None THEN None
    ELSE Minus(EndedAt(rec), CreatedAt(rec))

\* BaseSession.duration
Duration(rec) ==
    IF StartedAt(rec) = None \/ EndedAt(rec) = None THEN None
    ELSE Minus(EndedAt(rec), StartedAt(rec))

\* What the accessors of a session read at once
Accessors(rec) ==
    [id |-> Id(rec), created_at |-> CreatedAt(rec),
     started_at |-> StartedAt(rec), ended_at |-> EndedAt(rec),
     duration |-> Duration(rec), expires_at |-> ExpiresAt(rec),
     status |-> Status(rec)]

\* ----------------------------------------------------- the session options
\* An object of a pydantic model: the fields that were set, by name, with
\* their values; a field that was never set reads as its default, None
Model(fields) == [fields |-> fields]
GetAttr(obj, name) ==
    IF name \in DOMAIN obj.fields THEN obj.fields[name] ELSE None

\* obj.name = value
SetAttr(obj, name, value) ==
    Model([n \in DOMAIN obj.fields \cup {name} |->
             IF n = name THEN value ELSE obj.fields[n]])

\* An integer among the values of the fields
IntOf(n) == [int |-> n]

\* pydantic.alias_generators.to_camel of a snake_case name: the first word,
\* then the other words capitalised
Lower == "abcdefghijklmnopqrstuvwxyz"
Upper == "ABCDEFGHIJKLMNOPQRSTUVWXYZ"
Capitalize(word) ==
    IF word = "" THEN ""
    ELSE LET at == IndexOf(SubSeq(word, 1, 1), Lower)
         IN  (IF at = 0 THEN SubSeq(word, 1, 1) ELSE SubSeq(Upper, at, at))
               \o SubSeq(word, 2, Len(word))
RECURSIVE Capitalized(_)
Capitalized(words) ==
    IF words = <<>> THEN ""
    ELSE Capitalize(Head(words)) \o Capitalized(Tail(words))
to_camel(name) ==
    LET words == SplitOn(name, "_")
    IN  Head(words) \o Capitalized(Tail(words))

\* The fields of CreateSessionOptions, BrowserSettings and Viewport /
\* Fingerprint that are used here, and the alias of each
FieldNames ==
    {"project_id", "extension_id", "browser_settings", "timeout",
     "keep_alive", "status", "fingerprint", "viewport", "width", "height",
     "http_version"}
Alias == [name \in FieldNames |-> to_camel(name)]

\* The dumped value of one field: a nested model is dumped the same way, a
\* string or an integer is itself. DumpFields goes through the fields one by
\* one and writes each under its alias.
NextField(names) == CHOOSE n \in names : TRUE
RECURSIVE model_dump(_), DumpFields(_, _)
DumpFields(obj, names) ==
    IF names = {} THEN <<>>
    ELSE (Alias[NextField(names)] :>
            (IF "fields" \in DOMAIN obj.fields[NextField(names)]
             THEN model_dump(obj.fields[NextField(names)])
             ELSE IF "str" \in DOMAIN obj.fields[NextField(names)]
             THEN obj.fields[NextField(names)].str
             ELSE obj.fields[NextField(names)].int))
         @@ DumpFields(obj, names \ {NextField(names)})

\* BaseSchema.model_dump(): by alias, without the fields that were never set
\* and without those that are None
model_dump(obj) ==
    DumpFields(obj, {n \in DOMAIN obj.fields : obj.fields[n] # None})

\* A CreateSessionOptions that writes viewport and fingerprint into the
\* browser settings it was given, without copying them
CreateSessionOptionsInit_NoCopy(viewport, fingerprint, browser_settings, kwargs) ==
    LET base == IF browser_settings # None THEN browser_settings
                ELSE Model([n \in {} |-> None])
        with_viewport == IF viewport # None
                         THEN SetAttr(base, "viewport", viewport) ELSE base
        folded == IF fingerprint # None
                  THEN SetAttr(with_viewport, "fingerprint", fingerprint)
                  ELSE with_viewport
    IN  IF viewport # None \/ fingerprint # None
        THEN [options |-> SetAttr(Model(kwargs), "browser_settings", folded),
              browser_settings |-> IF browser_settings # None THEN folded
                                   ELSE None]
        ELSE IF browser_settings # None
        THEN [options |-> SetAttr(Model(kwargs), "browser_settings",
                                  browser_settings),
              browser_settings |-> browser_settings]
        ELSE [options |-> Model(kwargs), browser_settings |-> None]

\* CreateSessionOptions.__init__(viewport, fingerprint, browser_settings,
\* **kwargs): the options object, and the caller's browser_settings object as
\* the call leaves it. A model object is always true, so any((viewport,
\* fingerprint)) asks whether one of them is given.
CreateSessionOptionsInit(viewport, fingerprint, browser_settings, kwargs) ==
    LET copy == IF browser_settings # None THEN browser_settings
                ELSE Model([n \in {} |-> None])
        with_viewport == IF viewport # None
                         THEN SetAttr(copy, "viewport", viewport) ELSE copy
        folded == IF fingerprint # None
                  THEN SetAttr(with_viewport, "fingerprint", fingerprint)
                  ELSE with_viewport
    IN  IF viewport # None \/ fingerprint # None
        THEN [options |-> SetAttr(Model(kwargs), "browser_settings", folded),
              browser_settings |-> browser_settings]
        ELSE IF browser_settings # None
        THEN [options |-> SetAttr(Model(kwargs), "browser_settings",
                                  browser_settings),
              browser_settings |-> browser_settings]
        ELSE [options |-> Model(kwargs), browser_settings |-> None]

\* Viewport(width=..., height=...) and Fingerprint(http_version=...) objects
Viewports ==
    {Model([width |-> IntOf(800), height |-> IntOf(600)]),
     Model([width |-> IntOf(1024)])}
Fingerprints == {Model([http_version |-> IntOf(2)])}

\* The BrowserSettings objects a caller may build: any of the two members
BrowserSettingsObjects ==
    {Model([n \in {} |-> None])}
      \cup {Model([viewport |-> v]) : v \in Viewports}
      \cup {Model([fingerprint |-> f]) : f \in Fingerprints}
      \cup {Model([viewport |-> v, fingerprint |-> f]) :
              v \in Viewports, f \in Fingerprints}

\* What a caller may build a session from
OptionsGiven ==
    [viewport : {None} \cup Viewports, fingerprint : {None} \cup Fingerprints,
     browser_settings : {None} \cup BrowserSettingsObjects,
     timeout : {IntOf(60)}]

\* bbase.session() without arguments
NoOptionsGiven ==
    [viewport |-> None, fingerprint |-> None, browser_settings |-> None,
     timeout |-> None]

\* The options a session is built with, as the adapters build them (timeout,
\* extension_id and keep_alive are always passed), and BaseSession.__init__
\* writing the project id of the client into them
SessionOptionsOf(g) ==
    LET made == CreateSessionOptionsInit(
                    g.viewport, g.fingerprint, g.browser_settings,
                    [timeout |-> g.timeout, extension_id |-> None,
                     keep_alive |-> None])
    IN  [options |-> SetAttr(made.options, "project_id", Str(project_id)),
         browser_settings |-> made.browser_settings]

\* The session-level state of a session built without arguments
SessionDefaults ==
    /\ enable_proxy = FALSE
    /\ options_given = NoOptionsGiven
    /\ session_options = SessionOptionsOf(options_given).options
    /\ file_io = <<>>
    /\ objects = None

\* self._session_options.model_dump()
SessionOptionsDump == model_dump(session_options)

\* BaseSession._end_session_options / the options SyncSession.end builds
EndSessionOptionsDump ==
    model_dump(CreateSessionOptionsInit(None, None, None,
                   [project_id |-> Str(project_id),
                    status |-> Str("REQUEST_RELEASE")]).options)

\* The request start() posts: SyncSession.start adds the enable-proxy header
\* when the session was built with enable_proxy, AsyncSession.start does not
CreateRequest(style_) ==
    [op |-> "create", method |-> "POST", url |-> <<BaseUrl(style_)>>,
     body |-> SessionOptionsDump,
     headers |-> get_http_headers(FALSE, "")
                   \cup (IF style_ = "sync" /\ enable_proxy
                         THEN {<<"enable-proxy", "true">>} ELSE {})]

\* The request end() posts
ReleaseRequest(style_, rec) ==
    [op |-> "release", method |-> "POST", url |-> <<BaseUrl(style_), Id(rec)>>,
     body |-> EndSessionOptionsDump, headers |-> get_http_headers(FALSE, "")]

\* The request get_logs() sends
LogsRequest(style_, rec) ==
    [op |-> "logs", method |-> "GET", url |-> <<BaseUrl(style_), Id(rec), "logs">>,
     body |-> None, headers |-> get_http_headers(FALSE, "")]

\* The requests get_zipped_downloads(), get_live_urls() and get_recording()
\* send
DownloadsRequest(style_, rec) ==
    [op |-> "downloads", method |-> "GET",
     url |-> <<BaseUrl(style_), Id(rec), "downloads">>,
     body |-> None, headers |-> get_http_headers(FALSE, "")]
DebugRequest(style_, rec) ==
    [op |-> "debug", method |-> "GET",
     url |-> <<BaseUrl(style_), Id(rec), "debug">>,
     body |-> None, headers |-> get_http_headers(FALSE, "")]
RecordingRequest(style_, rec) ==
    [op |-> "recording", method |-> "GET",
     url |-> <<BaseUrl(style_), Id(rec), "recording">>,
     body |-> None, headers |-> get_http_headers(FALSE, "")]

\* What the server answers to an auxiliary GET: data that parses, a
\* non-success status, or a success status with data that does not parse
DataOutcomes == {[kind |-> "data", body |-> None]} \cup HttpFailures

\* response.raise_for_status(), then the parsing of the data
DataError(out) ==
    IF out.kind = "http_error" THEN "HTTPStatusError"
    ELSE IF out.kind = "unparsable" THEN "ValidationError"
    ELSE NoExc

\* The content of a response, as the file handle receives it
Content(out) == [content_of |-> out.kind]

\* A get_zipped_downloads that writes the body before it looks at the status
get_zipped_downloads_WritesFirst(style_, rec, out) ==
    [sent |-> <<DownloadsRequest(style_, rec)>>,
     exc |-> IF out.kind = "http_error" THEN "HTTPStatusError" ELSE NoExc,
     written |-> <<Content(out)>>]

\* SyncSession.get_zipped_downloads / AsyncSession.get_zipped_downloads:
\* raise_for_status(), then the content is written to the file as it is
get_zipped_downloads(style_, rec, out) ==
    [sent |-> <<DownloadsRequest(style_, rec)>>,
     exc |-> IF out.kind = "http_error" THEN "HTTPStatusError" ELSE NoExc,
     written |-> IF out.kind = "http_error" THEN <<>> ELSE <<Content(out)>>]

\* A get_live_urls() that sends its request again when it fails
get_live_urls_Retries(style_, rec, out) ==
    [sent |-> IF out.kind = "http_error"
              THEN <<DebugRequest(style_, rec), DebugRequest(style_, rec)>>
              ELSE <<DebugRequest(style_, rec)>>,
     exc |-> DataError(out)]

\* SyncSession.get_live_urls / AsyncSession.get_live_urls
get_live_urls(style_, rec, out) ==
    [sent |-> <<DebugRequest(style_, rec)>>, exc |-> DataError(out)]

\* SyncSession.get_logs / AsyncSession.get_logs
get_logs(style_, rec, out) ==
    [sent |-> <<LogsRequest(style_, rec)>>, exc |-> DataError(out)]

\* SyncSession.get_recording / AsyncSession.get_recording
get_recording(style_, rec, out) ==
    [sent |-> <<RecordingRequest(style_, rec)>>, exc |-> DataError(out)]

\* A session of a list response as the server sends it: the JSON object with
\* its camel-case keys
ToWire(r) ==
    [id |-> r.id, status |-> r.status, createdAt |-> r.created_at,
     startedAt |-> r.started_at, endedAt |-> r.ended_at,
     expiresAt |-> r.expires_at]

\* SessionResponse.model_validate(d): the fields by their aliases
model_validate(d) ==
    [id |-> d.id, status |-> d.status, created_at |-> d.createdAt,
     started_at |-> d.startedAt, ended_at |-> d.endedAt,
     expires_at |-> d.expiresAt]

\* BaseSession.from_api_response(bbase, response_dict), cls being SyncSession
\* or AsyncSession
from_api_response(style_, d) ==
    [cls |-> style_, api_response |-> model_validate(d),
     implicit_end |-> FALSE]

\* The sessions a list response may hold, and the responses of at most
\* MaxListed of them
ListElements ==
    {ToWire(r) : r \in {q \in SessionResponse :
                            /\ q.expires_at = None /\ ~q.started_at.aware
                            /\ q.ended_at = None <=> q.status = "RUNNING"}}
ListBodies == UNION {[1..n -> ListElements] : n \in 0..MaxListed}
\* What the server answers to a list request
ListOutcomes == [kind : {"list"}, body : ListBodies] \cup HttpFailures

\* The status filters of list_sessions: Optional[SESSIONSTATUS]
StatusFilters == {None} \cup {Str(st) : st \in Statuses}

\* The request list_sessions / alist_sessions send
ListRequest(status) ==
    [op |-> "list", method |-> "GET", url |-> <<SESSIONS_API_URL>>,
     params |-> IF status # None THEN {<<"status", status.str>>} ELSE {},
     body |-> None, headers |-> get_http_headers(FALSE, "")]

\* BrowserbaseCore.list_sessions (sync) / alist_sessions (async)
list_sessions(style_, status, out) ==
    IF out.kind = "list"
    THEN [sent |-> <<ListRequest(status)>>, exc |-> NoExc,
          ret |-> [i \in DOMAIN out.body |->
                     from_api_response(style_, out.body[i])]]
    ELSE [sent |-> <<ListRequest(status)>>, exc |-> DataError(out),
          ret |-> None]

\* response.raise_for_status() then SessionResponse.model_validate_json
ResponseError(out) ==
    CASE out.kind = "ok" -> NoExc
      [] out.kind = "http_error" -> "HTTPStatusError"
      [] out.kind = "unparsable" -> "ValidationError"

\* ------------------------------------------------------ session operations
\* Each returns the session's new fields, the requests it sent, the exception
\* it raised (NoExc for none) and what it returned.

\* A start() without the already-started check
Start_AlwaysPosts(style_, rec, out) ==
    IF ResponseError(out) = NoExc
    THEN [api_response |-> out.body, sent |-> <<CreateRequest(style_)>>,
          exc |-> NoExc, ret |-> Id(out.body)]
    ELSE [api_response |-> rec, sent |-> <<CreateRequest(style_)>>,
          exc |-> ResponseError(out), ret |-> "None"]

\* SyncSession.start / AsyncSession.start
Start(style_, rec, out) ==
    IF rec # None
    THEN [api_response |-> rec, sent |-> <<>>, exc |-> NoExc, ret |-> Id(rec)]
    ELSE IF ResponseError(out) = NoExc
         THEN [api_response |-> out.body, sent |-> <<CreateRequest(style_)>>,
               exc |-> NoExc, ret |-> Id(out.body)]
         ELSE [api_response |-> rec, sent |-> <<CreateRequest(style_)>>,
               exc |-> ResponseError(out), ret |-> "None"]

\* An end() without the not-started check
End_AlwaysPosts(style_, rec, out) ==
    IF ResponseError(out) = NoExc
    THEN [api_response |-> out.body, sent |-> <<ReleaseRequest(style_, rec)>>,
          exc |-> NoExc, ret |-> "None"]
    ELSE [api_response |-> rec, sent |-> <<ReleaseRequest(style_, rec)>>,
          exc |-> ResponseError(out), ret |-> "None"]

\* An end() that merges the response into the record, keeping the old
\* expires-at, and drops the record when the call fails
End_MergesRecord(style_, rec, out) ==
    IF rec = None
    THEN [api_response |-> rec, sent |-> <<>>, exc |-> NoExc, ret |-> "None"]
    ELSE IF ResponseError(out) = NoExc
         THEN [api_response |-> [out.body EXCEPT !.expires_at = rec.expires_at],
               sent |-> <<ReleaseRequest(style_, rec)>>,
               exc |-> NoExc, ret |-> "None"]
         ELSE [api_response |-> None, sent |-> <<ReleaseRequest(style_, rec)>>,
               exc |-> ResponseError(out), ret |-> "None"]

\* SyncSession.end / AsyncSession.end
End(style_, rec, out) ==
    IF rec = None
    THEN [api_response |-> rec, sent |-> <<>>, exc |-> NoExc, ret |-> "None"]
    ELSE IF ResponseError(out) = NoExc
         THEN [api_response |-> out.body, sent |-> <<ReleaseRequest(style_, rec)>>,
               exc |-> NoExc, ret |-> "None"]
         ELSE [api_response |-> rec, sent |-> <<ReleaseRequest(style_, rec)>>,
               exc |-> ResponseError(out), ret |-> "None"]

\* expires_at >= datetime.now(): datetime.now() is naive, and ordering an
\* aware datetime against a naive one raises TypeError
ExpiresGeNow(expires, clock) ==
    IF expires.aware THEN [exc |-> "TypeError", val |-> FALSE]
    ELSE [exc |-> NoExc, val |-> expires.t >= clock]

\* BaseSession._check_expiration
CheckExpiration(rec, flag, clock) ==
    IF ExpiresAt(rec) = None
    THEN [implicit_end |-> flag, exc |-> NoExc]
    ELSE LET c == ExpiresGeNow(ExpiresAt(rec), clock)
         IN  IF c.exc # NoExc THEN [implicit_end |-> flag, exc |-> c.exc]
             ELSE IF c.val THEN [implicit_end |-> TRUE, exc |-> NoExc]
             ELSE [implicit_end |-> flag, exc |-> NoExc]

BoolStr(b) == IF b THEN "True" ELSE "False"

\* A getter that recomputes the flag from the clock on every read
ImplicitEndGet_Recomputes(rec, flag, clock) ==
    IF ExpiresAt(rec) = None
    THEN [implicit_end |-> flag, exc |-> NoExc, ret |-> BoolStr(flag)]
    ELSE LET c == ExpiresGeNow(ExpiresAt(rec), clock)
         IN  IF c.exc # NoExc
             THEN [implicit_end |-> flag, exc |-> c.exc, ret |-> "None"]
             ELSE [implicit_end |-> c.val, exc |-> NoExc, ret |-> BoolStr(c.val)]

\* BaseSession.implicit_end (getter)
ImplicitEndGet(rec, flag, clock) ==
    IF flag
    THEN [implicit_end |-> TRUE, exc |-> NoExc, ret |-> "True"]
    ELSE LET c == CheckExpiration(rec, flag, clock)
         IN  IF c.exc # NoExc
             THEN [implicit_end |-> c.implicit_end, exc |-> c.exc, ret |-> "None"]
             ELSE [implicit_end |-> c.implicit_end, exc |-> NoExc,
                   ret |-> BoolStr(c.implicit_end)]

\* BaseSession.implicit_end (setter)
ImplicitEndSet(value) == value

\* A finally block that calls end() whatever implicit_end reports
ManagerFinally_AlwaysEnds(style_, rec, flag, clock, out) ==
    LET g == ImplicitEndGet(rec, flag, clock)
        e == End(style_, rec, out)
    IN  IF g.exc # NoExc
        THEN [api_response |-> rec, implicit_end |-> g.implicit_end,
              sent |-> <<>>, exc |-> g.exc, read |-> g.ret]
        ELSE [api_response |-> e.api_response, implicit_end |-> g.implicit_end,
              sent |-> e.sent, exc |-> e.exc, read |-> g.ret]

\* The finally block of BrowserbaseCore._session_manager / _asession_manager:
\* if not session.implicit_end: session.end()
ManagerFinally(style_, rec, flag, clock, out) ==
    LET g == ImplicitEndGet(rec, flag, clock)
    IN  IF g.exc # NoExc
        THEN [api_response |-> rec, implicit_end |-> g.implicit_end,
              sent |-> <<>>, exc |-> g.exc, read |-> g.ret]
        ELSE IF g.ret = "False"
             THEN LET e == End(style_, rec, out)
                  IN  [api_response |-> e.api_response,
                       implicit_end |-> g.implicit_end,
                       sent |-> e.sent, exc |-> e.exc, read |-> g.ret]
             ELSE [api_response |-> rec, implicit_end |-> g.implicit_end,
                   sent |-> <<>>, exc |-> NoExc, read |-> g.ret]

\* An exception raised in a finally block replaces the one in flight
Propagated(pending, raised) == IF raised # NoExc THEN raised ELSE pending

\* What the body of the scope may end with
BodyEnds == {NoExc, "BodyError"}
\* playwright.chromium.connect_over_cdp, then browser.contexts[0].pages[0]
PlaywrightAttach == {"ok", "connect_raises", "no_page"}
\* BrowserbaseConnection.get_driver
SeleniumAttach == {"ok", "get_driver_raises"}
\* driver.quit()
QuitOutcomes == {"ok", "KeyError", "WebDriverException"}

\* A manager that yields to the body even when start() has failed
ManagerEnter_RunsBody(style_, rec, out) ==
    LET r == Start(style_, rec, out)
    IN  [api_response |-> r.api_response, sent |-> r.sent, exc |-> NoExc,
         ret |-> r.ret, pc |-> "body"]

\* Entering BrowserbaseCore._session_manager / _asession_manager: start(),
\* outside the try block, then the yield
ManagerEnter(style_, rec, out) ==
    LET r == Start(style_, rec, out)
    IN  [api_response |-> r.api_response, sent |-> r.sent, exc |-> r.exc,
         ret |-> r.ret, pc |-> IF r.exc = NoExc THEN "body" ELSE "done"]

\* Leaving the manager: the finally block, with the body's exception in flight
ManagerExit(style_, rec, flag, clock, body_exc, out) ==
    LET f == ManagerFinally(style_, rec, flag, clock, out)
    IN  [api_response |-> f.api_response, implicit_end |-> f.implicit_end,
         sent |-> f.sent, exc |-> Propagated(body_exc, f.exc), read |-> f.read]

\* Entering PlaywrightBrowserbase.session / asession: the manager's entry,
\* connect_over_cdp with the URL of the session outside the try block, the
\* page lookup inside it
PlaywrightEnter(style_, rec, flag, clock, out, attach, out2) ==
    LET m == ManagerEnter(style_, rec, out)
        x == ManagerExit(style_, m.api_response,
                         IF attach = "no_page" THEN ImplicitEndSet(TRUE) ELSE flag,
                         clock,
                         IF attach = "no_page" THEN "IndexError"
                                               ELSE "PlaywrightError",
                         out2)
    IN  IF m.exc # NoExc
        THEN [api_response |-> m.api_response, implicit_end |-> flag,
              driver |-> "None", sent |-> m.sent, exc |-> m.exc,
              ret |-> m.ret, read |-> "None", pc |-> "done", cdp_url |-> ""]
        ELSE IF attach = "ok"
             THEN [api_response |-> m.api_response, implicit_end |-> flag,
                   driver |-> "page", sent |-> m.sent, exc |-> NoExc,
                   ret |-> m.ret, read |-> "None", pc |-> "body",
                   cdp_url |-> get_cdp_url(TRUE, Id(m.api_response), <<>>)]
             ELSE [api_response |-> x.api_response,
                   implicit_end |-> x.implicit_end, driver |-> "None",
                   sent |-> m.sent \o x.sent, exc |-> x.exc, ret |-> m.ret,
                   read |-> x.read, pc |-> "done",
                   cdp_url |-> get_cdp_url(TRUE, Id(m.api_response), <<>>)]

\* An adapter exit that forgets to set implicit_end
PlaywrightExit_KeepsFlag(style_, rec, flag, clock, body_exc, out) ==
    ManagerExit(style_, rec, flag, clock, body_exc, out)

\* Leaving PlaywrightBrowserbase.session / asession: the adapter's finally
\* sets implicit_end, then the manager's finally runs
PlaywrightExit(style_, rec, flag, clock, body_exc, out) ==
    ManagerExit(style_, rec, ImplicitEndSet(TRUE), clock, body_exc, out)

\* Entering SeleniumBrowserbase.session: the manager's entry, get_driver and
\* the driver assignment, all outside the try block
SeleniumEnter(style_, rec, flag, clock, out, attach, out2) ==
    LET m == ManagerEnter(style_, rec, out)
        x == ManagerExit(style_, m.api_response, flag, clock,
                         "WebDriverException", out2)
    IN  IF m.exc # NoExc
        THEN [api_response |-> m.api_response, implicit_end |-> flag,
              driver |-> "None", sent |-> m.sent, exc |-> m.exc,
              ret |-> m.ret, read |-> "None", pc |-> "done"]
        ELSE IF attach = "ok"
             THEN [api_response |-> m.api_response, implicit_end |-> flag,
                   driver |-> "driver", sent |-> m.sent, exc |-> NoExc,
                   ret |-> m.ret, read |-> "None", pc |-> "body"]
             ELSE [api_response |-> x.api_response,
                   implicit_end |-> x.implicit_end, driver |-> "None",
                   sent |-> m.sent \o x.sent, exc |-> x.exc, ret |-> m.ret,
                   read |-> x.read, pc |-> "done"]

\* Leaving SeleniumBrowserbase.session: driver.quit() with KeyError swallowed,
\* implicit_end set unless quit() raised something else, then the manager's
\* finally
SeleniumExit(style_, rec, flag, clock, body_exc, quit, out) ==
    IF quit \in {"ok", "KeyError"}
    THEN ManagerExit(style_, rec, ImplicitEndSet(TRUE), clock, body_exc, out)
    ELSE ManagerExit(style_, rec, flag, clock, quit, out)

\* PlaywrightSessionMixin.page / SeleniumSession.driver, the getter: an
\* unset handle raises
DriverGet(handle) ==
    IF handle = "None" THEN [ret |-> "None", exc |-> "RuntimeError"]
    ELSE [ret |-> handle, exc |-> NoExc]

\* A setter that replaces the handle it holds
DriverSet_Overwrites(handle, new_handle) ==
    [driver |-> new_handle, exc |-> NoExc]

\* PlaywrightSessionMixin.page / SeleniumSession.driver, the setter: a handle
\* that is set is never replaced
DriverSet(handle, new_handle) ==
    IF handle # "None" THEN [driver |-> handle, exc |-> "RuntimeError"]
    ELSE [driver |-> new_handle, exc |-> NoExc]

\* The pages / drivers a caller may assign
Handles(scope_) ==
    IF scope_ = "selenium" THEN {"driver", "driver2"} ELSE {"page", "page2"}

Room(sent) == Len(requests) + Len(sent) <= MaxRequests

\* The auxiliary requests among reqs, and whether one more may be made
AuxCount(reqs) ==
    Cardinality({i \in DOMAIN reqs : reqs[i].op \notin {"create", "release"}})
AuxRoom == AuxCount(requests) < MaxAuxCalls

\* ------------------------------------------------------------------- Init
\* What the last operation was: its name, the exception it raised, how many
\* requests it sent, what it returned, what its read of implicit_end returned,
\* the exception the body ended with, the server's answers to its create /
\* release requests, what driver.quit() did, the URL it handed to
\* connect_over_cdp, and its argument
LastOf(op, exc, sent) ==
    [op |-> op, exc |-> exc, sent |-> Len(sent), ret |-> "None",
     read |-> "None", body_exc |-> NoExc, resps |-> <<>>, quit |-> "None",
     cdp_url |-> "", arg |-> "None"]

\* The answers consumed by the requests an operation sent
Answers(sent, outs) ==
    [i \in 1..(IF Len(sent) < Len(outs) THEN Len(sent) ELSE Len(outs))
       |-> outs[i]]

\* BaseSession.__init__ (bbase.session(), bbase.asession(), or a session used
\* directly), and BaseSession.from_api_response for a listed session
Init ==
    /\ given = FixtureGiven
    /\ api_key = BrowserbaseCoreInit(given).api_key
    /\ project_id = BrowserbaseCoreInit(given).project_id
    /\ returned = None
    /\ SessionDefaults
    /\ scope \in Scopes
    /\ style \in IF scope = "selenium" THEN {"sync"} ELSE Styles
    /\ api_response \in IF scope = "listed" THEN SessionResponse ELSE {None}
    /\ implicit_end = FALSE
    /\ driver = "None"
    /\ now = 0
    /\ requests = <<>>
    /\ pc = IF scope \in {"bare", "listed"} THEN "body" ELSE "new"
    /\ last = LastOf("init", NoExc, <<>>)
    /\ seen_true = FALSE
    /\ overridden = FALSE

\* --------------------------------------------- operations on the session
\* session.start()
DoStart ==
    /\ pc = "body"
    /\ \E out \in CreateOutcomes :
         \E r \in {Start(style, api_response, out)} :
             /\ Room(r.sent)
             /\ api_response' = r.api_response
             /\ requests' = requests \o r.sent
             /\ last' = [LastOf("start", r.exc, r.sent) EXCEPT
                           !.ret = r.ret, !.resps = Answers(r.sent, <<out>>)]
    /\ UNCHANGED <<api_key, project_id, given, enable_proxy, options_given,
                   session_options, file_io, objects, returned, scope, style,
                   implicit_end, driver, now, pc, seen_true,
                   overridden>>

\* session.end()
DoEnd ==
    /\ pc = "body"
    /\ \E out \in ReleaseOutcomes(Id(api_response)) :
         \E r \in {End(style, api_response, out)} :
             /\ Room(r.sent)
             /\ api_response' = r.api_response
             /\ requests' = requests \o r.sent
             /\ last' = [LastOf("end", r.exc, r.sent) EXCEPT
                           !.resps = Answers(r.sent, <<out>>)]
    /\ UNCHANGED <<api_key, project_id, given, enable_proxy, options_given,
                   session_options, file_io, objects, returned, scope, style,
                   implicit_end, driver, now, pc, seen_true,
                   overridden>>

\* a read of session.implicit_end
ReadImplicitEnd ==
    /\ pc = "body"
    /\ \E g \in {ImplicitEndGet(api_response, implicit_end, now)} :
         /\ implicit_end' = g.implicit_end
         /\ last' = [LastOf("read", g.exc, <<>>) EXCEPT
                       !.ret = g.ret, !.read = g.ret]
         /\ seen_true' = (seen_true \/ g.ret = "True")
    /\ UNCHANGED <<api_key, project_id, given, enable_proxy, options_given,
                   session_options, file_io, objects, returned, scope, style,
                   api_response, driver, now, requests, pc,
                   overridden>>

\* session.implicit_end = value
SetImplicitEnd ==
    /\ pc = "body"
    /\ \E value \in BOOLEAN :
         /\ implicit_end' = ImplicitEndSet(value)
         /\ last' = [LastOf("set", NoExc, <<>>) EXCEPT !.ret = BoolStr(value)]
    /\ seen_true' = FALSE
    /\ overridden' = TRUE
    /\ UNCHANGED <<api_key, project_id, given, enable_proxy, options_given,
                   session_options, file_io, objects, returned, scope, style,
                   api_response, driver, now, requests, pc>>

\* session.get_logs(): an auxiliary read
GetLogs ==
    /\ pc = "body"
    /\ Room(<<LogsRequest(style, api_response)>>) /\ AuxRoom
    /\ \E out \in DataOutcomes :
         \E r \in {get_logs(style, api_response, out)} :
             /\ requests' = requests \o r.sent
             /\ last' = [LastOf("get_logs", r.exc, r.sent) EXCEPT
                           !.resps = <<out>>]
    /\ UNCHANGED <<api_key, project_id, given, enable_proxy, options_given,
                   session_options, file_io, objects, returned, scope, style,
                   api_response, implicit_end, driver, now, pc,
                   seen_true, overridden>>

\* the local clock advances
Tick ==
    /\ pc \in {"new", "body"}
    /\ now < MaxTime
    /\ now' = now + 1
    /\ last' = LastOf("tick", NoExc, <<>>)
    /\ UNCHANGED <<api_key, project_id, given, enable_proxy, options_given,
                   session_options, file_io, objects, returned, scope, style,
                   api_response, implicit_end, driver, requests,
                   pc, seen_true, overridden>>

\* ----------------------------------------------------- the scoped sessions
\* with bbase.session() / async with bbase.asession(): entry
EnterPlain ==
    /\ pc = "new" /\ scope = "plain"
    /\ \E out \in CreateOutcomes :
         \E m \in {ManagerEnter(style, api_response, out)} :
             /\ Room(m.sent)
             /\ api_response' = m.api_response
             /\ requests' = requests \o m.sent
             /\ pc' = m.pc
             /\ last' = [LastOf("enter", m.exc, m.sent) EXCEPT
                           !.ret = m.ret, !.resps = Answers(m.sent, <<out>>)]
    /\ UNCHANGED <<api_key, project_id, given, enable_proxy, options_given,
                   session_options, file_io, objects, returned, scope, style,
                   implicit_end, driver, now, seen_true,
                   overridden>>

\* with bbase.session() / async with bbase.asession(): exit
ExitPlain ==
    /\ pc = "body" /\ scope = "plain"
    /\ \E body_exc \in BodyEnds,
          out \in ReleaseOutcomes(Id(api_response)) :
         \E x \in {ManagerExit(style, api_response, implicit_end, now,
                               body_exc, out)} :
             /\ Room(x.sent)
             /\ api_response' = x.api_response
             /\ implicit_end' = x.implicit_end
             /\ requests' = requests \o x.sent
             /\ last' = [LastOf("exit", x.exc, x.sent) EXCEPT
                           !.read = x.read, !.body_exc = body_exc,
                           !.resps = Answers(x.sent, <<out>>)]
             /\ seen_true' = (seen_true \/ x.read = "True")
    /\ pc' = "done"
    /\ UNCHANGED <<api_key, project_id, given, enable_proxy, options_given,
                   session_options, file_io, objects, returned, scope, style,
                   driver, now, overridden>>

\* Playwright adapter: entry
EnterPlaywright ==
    /\ pc = "new" /\ scope = "playwright"
    /\ \E out \in CreateOutcomes, attach \in PlaywrightAttach :
         \E out2 \in ReleaseOutcomes(Id(out.body)) :
         \E m \in {PlaywrightEnter(style, api_response, implicit_end, now,
                                   out, attach, out2)} :
             /\ Room(m.sent)
             /\ api_response' = m.api_response
             /\ implicit_end' = m.implicit_end
             /\ driver' = m.driver
             /\ requests' = requests \o m.sent
             /\ pc' = m.pc
             /\ last' = [LastOf("enter", m.exc, m.sent) EXCEPT
                           !.ret = m.ret, !.read = m.read,
                           !.arg = attach,
                           !.cdp_url = m.cdp_url,
                           !.resps = Answers(m.sent, <<out, out2>>)]
             /\ seen_true' = (seen_true \/ m.read = "True")
    /\ UNCHANGED <<api_key, project_id, given, enable_proxy, options_given,
                   session_options, file_io, objects, returned, scope, style,
                   now, overridden>>

\* Playwright adapter: exit
ExitPlaywright ==
    /\ pc = "body" /\ scope = "playwright"
    /\ \E body_exc \in BodyEnds,
          out \in ReleaseOutcomes(Id(api_response)) :
         \E x \in {PlaywrightExit(style, api_response, implicit_end, now,
                                  body_exc, out)} :
             /\ Room(x.sent)
             /\ api_response' = x.api_response
             /\ implicit_end' = x.implicit_end
             /\ requests' = requests \o x.sent
             /\ last' = [LastOf("exit", x.exc, x.sent) EXCEPT
                           !.read = x.read, !.body_exc = body_exc,
                           !.resps = Answers(x.sent, <<out>>)]
             /\ seen_true' = (seen_true \/ x.read = "True")
    /\ pc' = "done"
    /\ UNCHANGED <<api_key, project_id, given, enable_proxy, options_given,
                   session_options, file_io, objects, returned, scope, style,
                   driver, now, overridden>>

\* Selenium adapter: entry
EnterSelenium ==
    /\ pc = "new" /\ scope = "selenium"
    /\ \E out \in CreateOutcomes, attach \in SeleniumAttach :
         \E out2 \in ReleaseOutcomes(Id(out.body)) :
         \E m \in {SeleniumEnter(style, api_response, implicit_end, now,
                                 out, attach, out2)} :
             /\ Room(m.sent)
             /\ api_response' = m.api_response
             /\ implicit_end' = m.implicit_end
             /\ driver' = m.driver
             /\ requests' = requests \o m.sent
             /\ pc' = m.pc
             /\ last' = [LastOf("enter", m.exc, m.sent) EXCEPT
                           !.ret = m.ret, !.read = m.read,
                           !.arg = attach,
                           !.resps = Answers(m.sent, <<out, out2>>)]
             /\ seen_true' = (seen_true \/ m.read = "True")
    /\ UNCHANGED <<api_key, project_id, given, enable_proxy, options_given,
                   session_options, file_io, objects, returned, scope, style,
                   now, overridden>>

\* Selenium adapter: exit
ExitSelenium ==
    /\ pc = "body" /\ scope = "selenium"
    /\ \E body_exc \in BodyEnds, quit \in QuitOutcomes,
          out \in ReleaseOutcomes(Id(api_response)) :
         \E x \in {SeleniumExit(style, api_response, implicit_end, now,
                                body_exc, quit, out)} :
             /\ Room(x.sent)
             /\ api_response' = x.api_response
             /\ implicit_end' = x.implicit_end
             /\ requests' = requests \o x.sent
             /\ last' = [LastOf("exit", x.exc, x.sent) EXCEPT
                           !.read = x.read, !.body_exc = body_exc,
                           !.resps = Answers(x.sent, <<out>>),
                           !.quit = quit]
             /\ seen_true' = (seen_true \/ x.read = "True")
    /\ pc' = "done"
    /\ UNCHANGED <<api_key, project_id, given, enable_proxy, options_given,
                   session_options, file_io, objects, returned, scope, style,
                   driver, now, overridden>>

\* with bbase.page(enable_proxy) / async with bbase.apage(enable_proxy): the
\* URL without a session, connect_over_cdp, the page lookup, the yield
OpenPage ==
    /\ pc = "new" /\ scope = "page"
    /\ \E proxy \in BOOLEAN, attach \in PlaywrightAttach :
         /\ pc' = IF attach = "ok" THEN "page" ELSE "done"
         /\ last' = [LastOf("page",
                            CASE attach = "ok" -> NoExc
                              [] attach = "connect_raises" -> "PlaywrightError"
                              [] attach = "no_page" -> "IndexError",
                            <<>>)
                       EXCEPT !.cdp_url = get_cdp_url(FALSE, "",
                                  IF proxy THEN <<<<"enable_proxy", "true">>>>
                                           ELSE <<>>),
                              !.arg = BoolStr(proxy)]
    /\ UNCHANGED <<api_key, project_id, given, enable_proxy, options_given,
                   session_options, file_io, objects, returned, scope, style,
                   api_response, implicit_end, driver, now, requests,
                   seen_true, overridden>>

\* the block of bbase.page() / bbase.apage() ends: nothing is left to do
ClosePage ==
    /\ pc = "page" /\ scope = "page"
    /\ \E body_exc \in BodyEnds :
         last' = [LastOf("page_exit", body_exc, <<>>) EXCEPT
                    !.body_exc = body_exc]
    /\ pc' = "done"
    /\ UNCHANGED <<api_key, project_id, given, enable_proxy, options_given,
                   session_options, file_io, objects, returned, scope, style,
                   api_response, implicit_end, driver, now, requests,
                   seen_true, overridden>>

Next ==
    \/ DoStart
    \/ DoEnd
    \/ ReadImplicitEnd
    \/ SetImplicitEnd
    \/ GetLogs
    \/ Tick
    \/ EnterPlain
    \/ ExitPlain
    \/ EnterPlaywright
    \/ ExitPlaywright
    \/ EnterSelenium
    \/ ExitSelenium
    \/ OpenPage
    \/ ClosePage

Spec == Init /\ [][Next]_vars

\* ------------------------------------- direct use of client and session
\* session.get_zipped_downloads(file_io)
GetZippedDownloads ==
    /\ pc = "body"
    /\ Room(<<DownloadsRequest(style, api_response)>>) /\ AuxRoom
    /\ \E out \in DataOutcomes :
         \E r \in {get_zipped_downloads(style, api_response, out)} :
             /\ requests' = requests \o r.sent
             /\ file_io' = file_io \o r.written
             /\ last' = [LastOf("get_zipped_downloads", r.exc, r.sent) EXCEPT
                           !.resps = <<out>>]
    /\ UNCHANGED <<api_key, project_id, given, enable_proxy, options_given,
                   session_options, objects, returned, scope, style,
                   api_response, implicit_end, driver, now, pc, seen_true,
                   overridden>>

\* session.get_live_urls()
GetLiveUrls ==
    /\ pc = "body"
    /\ Room(<<DebugRequest(style, api_response)>>) /\ AuxRoom
    /\ \E out \in DataOutcomes :
         \E r \in {get_live_urls(style, api_response, out)} :
             /\ requests' = requests \o r.sent
             /\ last' = [LastOf("get_live_urls", r.exc, r.sent) EXCEPT
                           !.resps = <<out>>]
    /\ UNCHANGED <<api_key, project_id, given, enable_proxy, options_given,
                   session_options, file_io, objects, returned, scope, style,
                   api_response, implicit_end, driver, now, pc, seen_true,
                   overridden>>

\* session.get_recording()
GetRecording ==
    /\ pc = "body"
    /\ Room(<<RecordingRequest(style, api_response)>>) /\ AuxRoom
    /\ \E out \in DataOutcomes :
         \E r \in {get_recording(style, api_response, out)} :
             /\ requests' = requests \o r.sent
             /\ last' = [LastOf("get_recording", r.exc, r.sent) EXCEPT
                           !.resps = <<out>>]
    /\ UNCHANGED <<api_key, project_id, given, enable_proxy, options_given,
                   session_options, file_io, objects, returned, scope, style,
                   api_response, implicit_end, driver, now, pc, seen_true,
                   overridden>>

\* bbase.list_sessions(status) / bbase.alist_sessions(status)
ListSessions ==
    /\ pc = "client" /\ AuxRoom
    /\ \E status \in StatusFilters, out \in ListOutcomes :
         \E r \in {list_sessions(style, status, out)} :
             /\ Room(r.sent)
             /\ requests' = requests \o r.sent
             /\ returned' = IF r.exc = NoExc THEN [sessions |-> r.ret]
                                             ELSE None
             /\ last' = [LastOf("list_sessions", r.exc, r.sent) EXCEPT
                           !.resps = <<out>>]
    /\ UNCHANGED <<api_key, project_id, given, enable_proxy, options_given,
                   session_options, file_io, objects, scope, style, api_response,
                   implicit_end, driver, now, pc, seen_true, overridden>>

\* reads of session.id, created_at, started_at, ended_at, duration,
\* expires_at and status
ReadAccessors ==
    /\ pc = "body"
    /\ returned' = Accessors(api_response)
    /\ last' = LastOf("accessors", NoExc, <<>>)
    /\ UNCHANGED <<api_key, project_id, given, enable_proxy, options_given,
                   session_options, file_io, objects, scope, style, api_response,
                   implicit_end, driver, now, requests, pc, seen_true,
                   overridden>>

\* A client and a session object used directly, outside any scope
InitCalls ==
    /\ given = FixtureGiven
    /\ api_key = BrowserbaseCoreInit(given).api_key
    /\ project_id = BrowserbaseCoreInit(given).project_id
    /\ returned = None
    /\ SessionDefaults
    /\ scope \in {"client", "bare", "listed"}
    /\ style \in Styles
    /\ api_response \in IF scope = "listed" THEN SessionResponse ELSE {None}
    /\ implicit_end = FALSE
    /\ driver = "None"
    /\ now = 0
    /\ requests = <<>>
    /\ pc = IF scope = "client" THEN "client" ELSE "body"
    /\ last = LastOf("init", NoExc, <<>>)
    /\ seen_true = FALSE
    /\ overridden = FALSE

NextCalls ==
    \/ DoStart
    \/ DoEnd
    \/ GetZippedDownloads
    \/ GetLiveUrls
    \/ GetLogs
    \/ GetRecording
    \/ ListSessions
    \/ ReadAccessors

SpecCalls == InitCalls /\ [][NextCalls]_vars

\* --------------------------------- driver sessions used without an adapter
\* a read of session.page / session.driver
ReadDriver ==
    /\ pc = "body" /\ scope \in {"playwright", "selenium"}
    /\ \E g \in {DriverGet(driver)} :
         last' = [LastOf("read_driver", g.exc, <<>>) EXCEPT !.ret = g.ret]
    /\ UNCHANGED <<api_key, project_id, given, enable_proxy, options_given,
                   session_options, file_io, objects, returned, scope, style,
                   api_response, implicit_end, driver, now, requests, pc,
                   seen_true, overridden>>

\* session.page = new_page / session.driver = new_driver
AssignDriver ==
    /\ pc = "body" /\ scope \in {"playwright", "selenium"}
    /\ \E new_handle \in Handles(scope) :
         \E r \in {DriverSet(driver, new_handle)} :
             /\ driver' = r.driver
             /\ last' = [LastOf("assign_driver", r.exc, <<>>) EXCEPT
                           !.arg = new_handle]
    /\ UNCHANGED <<api_key, project_id, given, enable_proxy, options_given,
                   session_options, file_io, objects, returned, scope, style,
                   api_response, implicit_end, now, requests, pc,
                   seen_true, overridden>>

\* PlaywrightSyncSession(bbase), PlaywrightAsyncSession(bbase) or
\* SeleniumSession(bbase): a driver session that no adapter has entered yet
InitHandle ==
    /\ given = FixtureGiven
    /\ api_key = BrowserbaseCoreInit(given).api_key
    /\ project_id = BrowserbaseCoreInit(given).project_id
    /\ returned = None
    /\ SessionDefaults
    /\ scope \in {"playwright", "selenium"}
    /\ style \in IF scope = "selenium" THEN {"sync"} ELSE Styles
    /\ api_response = None
    /\ implicit_end = FALSE
    /\ driver = "None"
    /\ now = 0
    /\ requests = <<>>
    /\ pc = "body"
    /\ last = LastOf("init", NoExc, <<>>)
    /\ seen_true = FALSE
    /\ overridden = FALSE

NextHandle ==
    \/ ReadDriver
    \/ AssignDriver
    \/ DoStart
    \/ DoEnd

SpecHandle == InitHandle /\ [][NextHandle]_vars

\* ------------------------------------------- sessions built with options
\* SyncSession(bbase, CreateSessionOptions(...), enable_proxy) or the same
\* with AsyncSession
NewSession ==
    /\ pc = "new" /\ scope = "bare" /\ session_options = None
    /\ \E r \in {SessionOptionsOf(options_given)} :
         /\ session_options' = r.options
         /\ options_given' = [options_given EXCEPT
                                !.browser_settings = r.browser_settings]
    /\ pc' = "body"
    /\ last' = LastOf("new_session", NoExc, <<>>)
    /\ UNCHANGED <<api_key, project_id, given, returned, enable_proxy,
                   file_io, objects, scope, style, api_response, implicit_end,
                   driver, now, requests, seen_true, overridden>>

\* Before the session is built: what the caller builds it from
InitOptions ==
    /\ given = FixtureGiven
    /\ api_key = BrowserbaseCoreInit(given).api_key
    /\ project_id = BrowserbaseCoreInit(given).project_id
    /\ returned = None
    /\ enable_proxy \in BOOLEAN
    /\ options_given \in OptionsGiven
    /\ session_options = None
    /\ file_io = <<>>
    /\ objects = None
    /\ scope = "bare"
    /\ style \in Styles
    /\ api_response = None
    /\ implicit_end = FALSE
    /\ driver = "None"
    /\ now = 0
    /\ requests = <<>>
    /\ pc = "new"
    /\ last = LastOf("init", NoExc, <<>>)
    /\ seen_true = FALSE
    /\ overridden = FALSE

NextOptions ==
    \/ NewSession
    \/ DoStart
    \/ DoEnd

SpecOptions == InitOptions /\ [][NextOptions]_vars

\* ------------------------------------------------------ two session objects
\* The attributes BaseSession and PlaywrightSessionMixin define on the class:
\* what an object reads until it has been assigned its own
ClassAttributes ==
    [api_response |-> None, implicit_end |-> FALSE, page |-> "None"]

\* self.<name>: the attribute of the object, else that of the class
Attr(objs, who, name) ==
    IF name \in DOMAIN objs.inst[who] THEN objs.inst[who][name]
    ELSE objs.klass[name]

\* An assignment that lands on the class
Store_OnClass(objs, who, name, value) ==
    [objs EXCEPT !.klass = [n \in DOMAIN objs.klass |->
                             IF n = name THEN value ELSE objs.klass[n]]]

\* self.<name> = value: the attribute is set on the object
Store(objs, who, name, value) ==
    [objs EXCEPT !.inst =
        [w \in DOMAIN objs.inst |->
           IF w # who THEN objs.inst[w]
           ELSE [n \in DOMAIN objs.inst[w] \cup {name} |->
                   IF n = name THEN value ELSE objs.inst[w][n]]]]

\* The two session objects, and the id the server gives each
Who == {"a", "b"}
IdOf(who) == IF who = "a" THEN "s1" ELSE "s2"

\* The answers the server gives to the requests of the two: a record with
\* timestamps without a timezone, or a failure status
PairOutcomes(outs) ==
    {out \in outs : /\ out.kind = "ok" => ~out.body.created_at.aware
                    /\ out.kind # "unparsable"}
PairRoom(sent) == Len(requests) + Len(sent) <= MaxPairRequests

\* session.start() on one of the two
PairStart ==
    /\ pc = "pair"
    /\ \E who \in Who, out \in PairOutcomes(CreateOutcomes) :
         /\ out.kind = "ok" => out.body.id = IdOf(who)
         /\ \E r \in {Start(Attr(objects, who, "cls"),
                            Attr(objects, who, "api_response"), out)} :
                /\ PairRoom(r.sent)
                /\ objects' = IF r.sent # <<>> /\ r.exc = NoExc
                              THEN Store(objects, who, "api_response",
                                         r.api_response)
                              ELSE objects
                /\ requests' = requests \o r.sent
                /\ last' = [LastOf("start", r.exc, r.sent) EXCEPT
                              !.ret = r.ret, !.arg = who]
    /\ UNCHANGED <<api_key, project_id, given, returned, enable_proxy,
                   options_given, session_options, file_io, scope, style,
                   api_response, implicit_end, driver, now, pc, seen_true,
                   overridden>>

\* session.end() on one of the two
PairEnd ==
    /\ pc = "pair"
    /\ \E who \in Who :
         \E out \in PairOutcomes(ReleaseOutcomes(
                                     Id(Attr(objects, who, "api_response")))) :
         \E r \in {End(Attr(objects, who, "cls"),
                       Attr(objects, who, "api_response"), out)} :
             /\ PairRoom(r.sent)
             /\ objects' = IF r.sent # <<>> /\ r.exc = NoExc
                           THEN Store(objects, who, "api_response",
                                      r.api_response)
                           ELSE objects
             /\ requests' = requests \o r.sent
             /\ last' = [LastOf("end", r.exc, r.sent) EXCEPT !.arg = who]
    /\ UNCHANGED <<api_key, project_id, given, returned, enable_proxy,
                   options_given, session_options, file_io, scope, style,
                   api_response, implicit_end, driver, now, pc, seen_true,
                   overridden>>

\* a read of session.implicit_end on one of the two: _check_expiration may
\* set the flag
PairReadImplicitEnd ==
    /\ pc = "pair"
    /\ \E who \in Who :
         \E g \in {ImplicitEndGet(Attr(objects, who, "api_response"),
                                  Attr(objects, who, "implicit_end"), now)} :
             /\ objects' = IF g.implicit_end # Attr(objects, who, "implicit_end")
                           THEN Store(objects, who, "implicit_end",
                                      g.implicit_end)
                           ELSE objects
             /\ last' = [LastOf("read", g.exc, <<>>) EXCEPT
                           !.ret = g.ret, !.read = g.ret, !.arg = who]
    /\ UNCHANGED <<api_key, project_id, given, returned, enable_proxy,
                   options_given, session_options, file_io, scope, style,
                   api_response, implicit_end, driver, now, requests, pc,
                   seen_true, overridden>>

\* session.implicit_end = value on one of the two
PairSetImplicitEnd ==
    /\ pc = "pair"
    /\ \E who \in Who, value \in BOOLEAN :
         /\ objects' = Store(objects, who, "implicit_end",
                             ImplicitEndSet(value))
         /\ last' = [LastOf("set", NoExc, <<>>) EXCEPT
                       !.ret = BoolStr(value), !.arg = who]
    /\ UNCHANGED <<api_key, project_id, given, returned, enable_proxy,
                   options_given, session_options, file_io, scope, style,
                   api_response, implicit_end, driver, now, requests, pc,
                   seen_true, overridden>>

\* session.page = new_page on one of the two
PairAssignPage ==
    /\ pc = "pair"
    /\ \E who \in Who, new_page \in {"page"} :
         \E r \in {DriverSet(Attr(objects, who, "page"), new_page)} :
             /\ objects' = IF r.exc = NoExc
                           THEN Store(objects, who, "page", r.driver)
                           ELSE objects
             /\ last' = [LastOf("assign_driver", r.exc, <<>>) EXCEPT
                           !.ret = new_page, !.arg = who]
    /\ UNCHANGED <<api_key, project_id, given, returned, enable_proxy,
                   options_given, session_options, file_io, scope, style,
                   api_response, implicit_end, driver, now, requests, pc,
                   seen_true, overridden>>

\* session.get_logs() on one of the two
PairGetLogs ==
    /\ pc = "pair" /\ AuxRoom
    /\ \E who \in Who, out \in DataOutcomes :
         \E r \in {get_logs(Attr(objects, who, "cls"),
                            Attr(objects, who, "api_response"), out)} :
             /\ PairRoom(r.sent)
             /\ requests' = requests \o r.sent
             /\ last' = [LastOf("get_logs", r.exc, r.sent) EXCEPT
                           !.arg = who]
    /\ UNCHANGED <<api_key, project_id, given, returned, enable_proxy,
                   options_given, session_options, file_io, objects, scope,
                   style, api_response, implicit_end, driver, now, pc,
                   seen_true, overridden>>

\* Two Playwright sessions of one client, each built by BaseSession.__init__
\* with options of its own: the objects hold only what __init__ assigns
InitPair ==
    /\ given = FixtureGiven
    /\ api_key = BrowserbaseCoreInit(given).api_key
    /\ project_id = BrowserbaseCoreInit(given).project_id
    /\ returned = None
    /\ enable_proxy = FALSE
    /\ options_given = NoOptionsGiven
    /\ session_options = SessionOptionsOf(options_given).options
    /\ file_io = <<>>
    /\ \E cls_a \in {"sync"}, cls_b \in Styles :
         objects = [klass |-> ClassAttributes,
                    inst |-> [a |-> [cls |-> cls_a,
                                     session_options |-> session_options,
                                     enable_proxy |-> enable_proxy],
                              b |-> [cls |-> cls_b,
                                     session_options |-> session_options,
                                     enable_proxy |-> enable_proxy]]]
    /\ scope = "pair"
    /\ style = "sync"
    /\ api_response = None
    /\ implicit_end = FALSE
    /\ driver = "None"
    /\ now = 0
    /\ requests = <<>>
    /\ pc = "pair"
    /\ last = LastOf("init", NoExc, <<>>)
    /\ seen_true = FALSE
    /\ overridden = FALSE

NextPair ==
    \/ PairStart
    \/ PairEnd
    \/ PairReadImplicitEnd
    \/ PairSetImplicitEnd
    \/ PairAssignPage
    \/ PairGetLogs

SpecPair == InitPair /\ [][NextPair]_vars

\* ---------------------------------------------- construction of the client
\* Browserbase(api_key, project_id) with the environment as given
Construct ==
    /\ pc = "new" /\ scope = "client"
    /\ \E r \in {BrowserbaseCoreInit(given)} :
         /\ api_key' = r.api_key
         /\ project_id' = r.project_id
         /\ returned' = IF r.exc = NoExc THEN None ELSE Str(r.message)
         /\ pc' = IF r.exc = NoExc THEN "client" ELSE "done"
         /\ last' = LastOf("construct", r.exc, <<>>)
    /\ UNCHANGED <<given, enable_proxy, options_given, session_options,
                   file_io, objects, scope, style, api_response, implicit_end, driver,
                   now, requests, seen_true, overridden>>

\* a read of bbase.project_id
ReadProjectId ==
    /\ pc = "client"
    /\ \E r \in {ProjectIdGet(project_id)} :
         /\ returned' = r.ret
         /\ last' = LastOf("project_id", r.exc, <<>>)
    /\ UNCHANGED <<api_key, project_id, given, enable_proxy, options_given,
                   session_options, file_io, objects, scope, style, api_response,
                   implicit_end, driver, now, requests, pc, seen_true,
                   overridden>>

\* The sessions get_cdp_url may be given: one without a record, a started one
CdpSessions ==
    {None} \cup {r \in SessionResponse :
                   /\ r.status = "RUNNING" /\ r.ended_at = None
                   /\ r.expires_at = None /\ ~r.created_at.aware}
\* The extra keyword arguments: none, or enable_proxy="true" as page() passes
CdpKwargs == {<<>>, <<<<"enable_proxy", "true">>>>}

\* bbase.get_cdp_url(), bbase.get_cdp_url(session), with or without
\* enable_proxy="true"
GetCdpUrl ==
    /\ pc = "client"
    /\ \E has_session \in BOOLEAN, rec \in CdpSessions, kwargs \in CdpKwargs :
         /\ ~has_session => rec = None
         /\ returned' = Str(get_cdp_url(has_session, Id(rec), kwargs))
         /\ last' = [op |-> "get_cdp_url", exc |-> NoExc, sent |-> 0,
                     has_session |-> has_session, id |-> Id(rec),
                     kwargs |-> kwargs]
    /\ UNCHANGED <<api_key, project_id, given, enable_proxy, options_given,
                   session_options, file_io, objects, scope, style, api_response,
                   implicit_end, driver, now, requests, pc, seen_true,
                   overridden>>

\* Before the construction: the arguments and the environment are given
InitSettings ==
    /\ given \in Givens
    /\ api_key = NoApiKey
    /\ project_id = NoProjectId
    /\ returned = None
    /\ SessionDefaults
    /\ scope = "client"
    /\ style = "sync"
    /\ api_response = None
    /\ implicit_end = FALSE
    /\ driver = "None"
    /\ now = 0
    /\ requests = <<>>
    /\ pc = "new"
    /\ last = LastOf("init", NoExc, <<>>)
    /\ seen_true = FALSE
    /\ overridden = FALSE

NextSettings ==
    \/ Construct
    \/ ReadProjectId
    \/ GetCdpUrl

SpecSettings == InitSettings /\ [][NextSettings]_vars

\* ================================================================ properties
\* The release / create requests among reqs
ReleaseCount(reqs) == Cardinality({i \in DOMAIN reqs : reqs[i].op = "release"})
CreateCount(reqs) == Cardinality({i \in DOMAIN reqs : reqs[i].op = "create"})

\* The scopes opened through a manager
Managed == {"plain", "playwright", "selenium"}
\* The errors a create / release call fails with
CallErrors == {"HTTPStatusError", "ValidationError"}

\* C1: a plain scoped session whose calls succeed and whose body exits
\* normally (and leaves the session alone) issues exactly one create request
\* on entry (a POST) and exactly one release request on exit, a POST to the
\* create URL extended by the id the create response returned, with body
\* {status: REQUEST_RELEASE, projectId: <project id>}.
C1_ScopedRoundTrip ==
    [][ /\ (scope = "plain" /\ pc = "new" /\ pc' = "body")
           => /\ Len(requests') = 1
              /\ requests'[1].op = "create"
              /\ requests'[1].method = "POST"
        /\ (/\ scope = "plain" /\ pc = "body" /\ pc' = "done"
            /\ Len(requests) = 1 /\ ~overridden /\ ~seen_true
            /\ last'.body_exc = NoExc
            /\ last'.exc \notin CallErrors)
           => /\ Len(requests') = 2
              /\ requests'[2].op = "release"
              /\ requests'[2].method = "POST"
              /\ requests'[2].url = Append(requests[1].url, api_response.id)
              /\ requests'[2].body = [status |-> "REQUEST_RELEASE",
                                      projectId |-> PROJECT_ID]
      ]_vars

\* C2: whenever a scope has been left after a successful start(), the session
\* reports implicit_end = true or the exit has issued a release request.
C2_ExitEndsOrReleases ==
    (pc = "done" /\ api_response # None)
      => \/ implicit_end
         \/ (last.sent >= 1 /\ requests[Len(requests)].op = "release")

C4_DriverExitNeverReleases ==
    [][ (scope \in {"playwright", "selenium"} /\ driver # "None"
         /\ pc = "body" /\ pc' = "done")
          => /\ implicit_end'
             /\ requests' = requests
             /\ Len(requests) = 1 => requests'[Len(requests')].op = "create"
      ]_vars

\* C4 (amended): the same, unless the Selenium driver's quit() raised an error
\* other than KeyError, which leaves implicit_end as it was.
C4_DriverExitReleasesOnlyAfterQuitError ==
    [][ (scope \in {"playwright", "selenium"} /\ driver # "None"
         /\ pc = "body" /\ pc' = "done"
         /\ last'.quit \in {"None", "ok", "KeyError"})
          => /\ implicit_end'
             /\ requests' = requests
             /\ Len(requests) = 1 => requests'[Len(requests')].op = "create"
      ]_vars

\* C4 witness: a Selenium scope has been left with the driver attached and
\* quit() raising KeyError; only the adapter can have set implicit_end (the
\* caller never assigned it, no read returned true in the body) and the create
\* request is the last one
C4_Witness ==
    /\ pc = "done" /\ scope = "selenium" /\ driver = "driver"
    /\ last.op = "exit" /\ last.quit = "KeyError" /\ last.read = "True"
    /\ ~overridden /\ ExpiresAt(api_response) = None
    /\ implicit_end
    /\ Len(requests) = 1 /\ requests[1].op = "create"

\* C5: a read of implicit_end that follows a successful end() (one that sent
\* its release request and got a success response), with no assignment in
\* between, returns true.
C5_ReadAfterEndIsTrue ==
    [][ (last.op = "end" /\ last.sent = 1 /\ last.exc = NoExc
         /\ last'.op \in {"read", "exit"})
          => last'.read = "True"
      ]_vars

\* C6: with no end() and no caller assignment so far, a read of implicit_end
\* at local time T on a record expiring at E returns true when T is past E and
\* false while T is before E, and false when the record has no expires-at.
C6_ClockCheckFollowsExpiry ==
    [][ (last'.op = "read" /\ pc = "body" /\ ~overridden
         /\ ReleaseCount(requests) = 0)
          => IF ExpiresAt(api_response) = None
             THEN last'.read = "False"
             ELSE /\ now > ExpiresAt(api_response).t => last'.read = "True"
                  /\ now < ExpiresAt(api_response).t => last'.read = "False"
      ]_vars

\* C7: once a read of implicit_end has returned true, every later read (the
\* caller's or the manager's at exit) returns true, whatever start(), end(),
\* auxiliary reads and clock changes come in between, until the caller
\* assigns implicit_end.
C7_ImplicitEndSticky ==
    [][ (seen_true /\ last'.op \in {"read", "exit"}) => last'.read = "True"
      ]_vars

\* C7 witness: a read has just returned true at a time when the clock check
\* alone would not set the flag (the record's naive expires-at is before now),
\* the caller never having assigned it: the value is the one an earlier read
\* left
C7_Witness ==
    /\ seen_true /\ ~overridden
    /\ last.op = "read" /\ last.read = "True"
    /\ ExpiresAt(api_response) # None
    /\ ~ExpiresAt(api_response).aware
    /\ now > ExpiresAt(api_response).t

\* start() with the record present sends nothing, leaves the record and
\* implicit_end alone and returns the record's id
StartIsNoOpWhenStarted ==
    (last'.op = "start" /\ pc = "body" /\ api_response # None)
      => /\ requests' = requests
         /\ api_response' = api_response
         /\ implicit_end' = implicit_end
         /\ last'.exc = NoExc
         /\ last'.ret = api_response.id

\* C8 (as stated): start() on a session whose record is present is a no-op,
\* and at most one create request is ever issued per session object.
C8_StartNoOpAtMostOneCreate ==
    [][StartIsNoOpWhenStarted /\ CreateCount(requests') <= 1]_vars

\* C8 (amended): start() on a session whose record is present is a no-op, and
\* once a record is present it stays present and no create request is issued
\* any more: at most one create request succeeds, while a start() that failed
\* may be repeated and then issues a further create request.
C8_StartNoOpNoCreateOnceStarted ==
    [][ /\ StartIsNoOpWhenStarted
        /\ api_response # None
             => /\ api_response' # None
                /\ CreateCount(requests') = CreateCount(requests)
      ]_vars

\* C8 witness: start() has just run as a no-op on a session that had been
\* created and ended before
C8_Witness ==
    /\ last.op = "start" /\ last.sent = 0 /\ last.exc = NoExc
    /\ api_response # None /\ last.ret = api_response.id
    /\ CreateCount(requests) = 1 /\ ReleaseCount(requests) = 1

\* C9: end() with the record absent sends nothing, raises nothing and leaves
\* the record absent and implicit_end alone; a release request is only ever
\* sent with a record present, so after a create response for every session
\* that was not built from a list response.
C9_EndNoOpWhenUnstarted ==
    [][ /\ (last'.op = "end" /\ pc = "body" /\ api_response = None)
             => /\ requests' = requests
                /\ api_response' = None
                /\ implicit_end' = implicit_end
                /\ last'.exc = NoExc
        /\ ReleaseCount(requests') > ReleaseCount(requests)
             => /\ api_response # None \/ last'.op = "enter"
                /\ scope # "listed" => CreateCount(requests') >= 1
      ]_vars

\* C9 witness: end() has just run on a session whose start() failed before:
\* the record is absent and the failed create request is the only request
C9_Witness ==
    /\ last.op = "end" /\ last.sent = 0 /\ last.exc = NoExc
    /\ api_response = None
    /\ Len(requests) = 1 /\ requests[1].op = "create"

\* The record after a call: each success answer replaces it whole, each failure
\* leaves it as it was
RECURSIVE RecordAfter(_, _)
RecordAfter(rec, outs) ==
    IF outs = <<>> THEN rec
    ELSE RecordAfter(IF Head(outs).kind = "ok" THEN Head(outs).body ELSE rec,
                     Tail(outs))

\* C10: the record changes only by a successful start() or end(), which
\* replaces it with the whole parsed response; a start() or end() that fails
\* (non-success status or unparsable body) and every other operation leave it
\* exactly as it was.
C10_RecordReplacedWholeOnSuccessOnly ==
    [][ /\ api_response' = RecordAfter(api_response, last'.resps)
        /\ last'.op \in {"start", "end"} => Len(last'.resps) = last'.sent
      ]_vars

\* C10 witness: an end() has just succeeded on a listed session: the record is
\* the response, completed and without an expires-at
C10_Witness ==
    /\ scope = "listed"
    /\ last.op = "end" /\ last.exc = NoExc /\ last.sent = 1
    /\ api_response = last.resps[1].body
    /\ api_response.status = "COMPLETED"
    /\ api_response.expires_at = None

\* The operations that call the sessions API
CallOps == {"start", "end", "list_sessions", "get_zipped_downloads",
            "get_live_urls", "get_logs", "get_recording"}

\* C11: an operation (start, end, list, downloads, live-urls, logs,
\* recording; sync or async) whose request is answered with a non-success
\* status raises the HTTP status error to its caller and has sent exactly that
\* one request; no invocation sends more than one request.
C11_FailuresSurfaceNoRetry ==
    [][ last'.op \in CallOps
          => /\ Len(requests') - Len(requests) = Len(last'.resps)
             /\ Len(last'.resps) <= 1
             /\ (Len(last'.resps) = 1 /\ last'.resps[1].kind = "http_error")
                  => /\ last'.exc = "HTTPStatusError"
                     /\ SubSeq(requests', 1, Len(requests)) = requests
                     /\ api_response' = api_response
      ]_vars

\* C11 witness: an asynchronous get_live_urls() on a started session, after a
\* start() that failed and one that succeeded, has just been answered with a
\* non-success status and raised
C11_Witness ==
    /\ style = "async" /\ scope = "bare"
    /\ last.op = "get_live_urls" /\ last.exc = "HTTPStatusError"
    /\ last.resps[1].kind = "http_error"
    /\ Len(requests) = 3 /\ requests[3].op = "debug"
    /\ requests[1].op = "create" /\ requests[2].op = "create"

\* C12: when the body of a plain scoped session raises E1 while implicit_end
\* is false (the flag is not set and the record's expires-at, if any, has not
\* passed), the exit still sends the release request of end(); the caller
\* observes E1 if that request succeeds, and the error of end() if it fails.
C12_BodyErrorStillEnds ==
    [][ (/\ scope = "plain" /\ pc = "body" /\ pc' = "done"
         /\ last'.body_exc = "BodyError"
         /\ ~implicit_end
         /\ ExpiresAt(api_response) # None => now < ExpiresAt(api_response).t)
          => /\ Len(requests') = Len(requests) + 1
             /\ requests'[Len(requests')].op = "release"
             /\ Len(last'.resps) = 1
             /\ last'.exc = IF last'.resps[1].kind = "ok"
                            THEN "BodyError"
                            ELSE ResponseError(last'.resps[1])
      ]_vars

\* What the accessors give for a session without a record
BlankSession ==
    [id |-> "", created_at |-> DatetimeMin, started_at |-> None,
     ended_at |-> None, duration |-> None, expires_at |-> None,
     status |-> None]

\* C13: the accessors of a session whose record is absent give id "",
\* created_at the minimum datetime, and started_at, ended_at, expires_at,
\* status and duration absent; and the record of a session that was not built
\* from a list response stays absent until a start() succeeds, whatever
\* start() calls failed and end() calls were made before.
C13_BlankSessionAccessors ==
    [][ /\ (last'.op = "accessors" /\ api_response = None)
             => returned' = BlankSession
        /\ (api_response = None /\ api_response' # None)
             => /\ last'.op = "start"
                /\ Len(last'.resps) = 1 /\ last'.resps[1].kind = "ok"
      ]_vars

\* C13 witness: the accessors have just been read on a session on which a
\* start() has failed
C13_Witness ==
    /\ scope = "bare" /\ api_response = None
    /\ last.op = "accessors" /\ returned = BlankSession
    /\ Len(requests) = 1 /\ requests[1].op = "create"

\* C14: duration is ended-at minus started-at, in seconds, when the record
\* holds both, and absent when either is absent (startedAt = T0 and endedAt =
\* T0 + 1200 s give 1200 s; a running session without endedAt gives absent).
C14_DurationIsEndMinusStart ==
    [][ last'.op = "accessors"
          => returned'.duration =
               IF api_response = None THEN None
               ELSE IF api_response.ended_at = None THEN None
               ELSE [seconds |->
                       api_response.ended_at.t - api_response.started_at.t]
      ]_vars

\* C14 witness: the accessors have just been read on a session started at T0
\* and ended 1200 s later, and duration gave 1200 s
C14_Witness ==
    /\ last.op = "accessors" /\ api_response # None
    /\ api_response.ended_at # None
    /\ api_response.ended_at.t = api_response.started_at.t + 1200
    /\ returned.duration = [seconds |-> 1200]

\* C14 witness of the absent case: a running session without endedAt
C14_WitnessRunning ==
    /\ last.op = "accessors" /\ api_response # None
    /\ api_response.ended_at = None /\ returned.duration = None

\* The parts of a message
Parts(message) == {message[i] : i \in DOMAIN message}

\* The construction succeeds with the given key and project id
Constructed(key, pid) ==
    /\ last'.exc = NoExc /\ pc' = "client"
    /\ api_key' = key.str /\ project_id' = pid.str

\* The construction fails with a message that has the given part
Refused(part) ==
    /\ last'.exc = "ValueError" /\ pc' = "done"
    /\ part \in Parts(returned'.str)

\* C15 (as stated): a valid API key and project id, both given as arguments
\* or both through the environment, construct a client whose project_id
\* getter returns the given project id; every project id that is not a UUID
\* fails the construction with a message that names its source, "project_id
\* parameter" for the argument and the variable's name for the environment.
C15_ValidConstructsInvalidNamesSource ==
    [][ /\ last'.op = "construct"
           => /\ (/\ Truthy(given.api_key) /\ Truthy(given.project_id)
                  /\ IsUUID(given.project_id.str))
                   => Constructed(given.api_key, given.project_id)
              /\ (/\ given.api_key = None /\ given.project_id = None
                  /\ Truthy(given.environ.api_key)
                  /\ Truthy(given.environ.project_id)
                  /\ IsUUID(given.environ.project_id.str))
                   => Constructed(given.environ.api_key,
                                  given.environ.project_id)
              /\ (/\ given.project_id # None
                  /\ ~IsUUID(given.project_id.str))
                   => Refused("project_id parameter")
              /\ (/\ given.project_id = None
                  /\ given.environ.project_id # None
                  /\ ~IsUUID(given.environ.project_id.str))
                   => Refused(ENVIRON_PROJECT_ID)
        /\ last'.op = "project_id"
           => last'.exc = NoExc /\ returned' = Str(project_id)
      ]_vars

\* C15 (amended): the same, where the failure with the message naming the
\* source is that of a non-empty project id that is not a UUID, met with an
\* API key at hand: an empty argument counts as not given (the environment
\* is consulted), and a missing API key is reported first.
C15_ValidConstructsNonEmptyInvalidNamesSource ==
    [][ /\ last'.op = "construct"
           => /\ (/\ Truthy(given.api_key) /\ Truthy(given.project_id)
                  /\ IsUUID(given.project_id.str))
                   => Constructed(given.api_key, given.project_id)
              /\ (/\ given.api_key = None /\ given.project_id = None
                  /\ Truthy(given.environ.api_key)
                  /\ Truthy(given.environ.project_id)
                  /\ IsUUID(given.environ.project_id.str))
                   => Constructed(given.environ.api_key,
                                  given.environ.project_id)
              /\ (/\ Truthy(Or(given.api_key, given.environ.api_key))
                  /\ Truthy(given.project_id)
                  /\ ~IsUUID(given.project_id.str))
                   => Refused("project_id parameter")
              /\ (/\ Truthy(Or(given.api_key, given.environ.api_key))
                  /\ ~Truthy(given.project_id)
                  /\ Truthy(given.environ.project_id)
                  /\ ~IsUUID(given.environ.project_id.str))
                   => Refused(ENVIRON_PROJECT_ID)
        /\ last'.op = "project_id"
           => last'.exc = NoExc /\ returned' = Str(project_id)
      ]_vars

\* C15 witness: a construction from the environment alone has just failed on
\* a project id one digit short of a UUID, and the message names the variable
C15_Witness ==
    /\ last.op = "construct" /\ last.exc = "ValueError"
    /\ given.api_key = None /\ given.project_id = None
    /\ given.environ.project_id = Str(Repeat("3", 31))
    /\ ENVIRON_PROJECT_ID \in Parts(returned.str)
    /\ "project_id parameter" \notin Parts(returned.str)

\* C16: each of the two values is taken from the argument when that is given
\* (not None and not empty) and from the environment only otherwise, the one
\* independently of the other: a project id argument that is not a UUID fails
\* the construction whatever the environment holds, and a valid one succeeds
\* whatever the environment holds; the construction fails when neither source
\* has an API key, and when neither has a project id.
C16_ArgumentsBeforeEnvironment ==
    [][ last'.op = "construct"
          => /\ last'.exc = NoExc
                  => /\ api_key' = IF Truthy(given.api_key)
                                   THEN given.api_key.str
                                   ELSE given.environ.api_key.str
                     /\ project_id' = IF Truthy(given.project_id)
                                      THEN given.project_id.str
                                      ELSE given.environ.project_id.str
             /\ (Truthy(given.project_id) /\ ~IsUUID(given.project_id.str))
                  => last'.exc = "ValueError"
             /\ (/\ Truthy(given.api_key) \/ Truthy(given.environ.api_key)
                 /\ Truthy(given.project_id)
                 /\ IsUUID(given.project_id.str))
                  => last'.exc = NoExc
             /\ (~Truthy(given.api_key) /\ ~Truthy(given.environ.api_key))
                  => last'.exc = "ValueError"
             /\ (/\ ~Truthy(given.project_id)
                 /\ ~Truthy(given.environ.project_id))
                  => last'.exc = "ValueError"
      ]_vars

\* C16 witness: a construction has just succeeded with the API key of the
\* argument, the environment holding another one, and the project id of the
\* environment, the argument being absent
C16_Witness ==
    /\ last.op = "construct" /\ last.exc = NoExc
    /\ Truthy(given.api_key) /\ Truthy(given.environ.api_key)
    /\ given.api_key # given.environ.api_key
    /\ api_key = given.api_key.str
    /\ given.project_id = None
    /\ project_id = given.environ.project_id.str

\* C16 witness of the failure: a project id argument that is not a UUID has
\* failed the construction although the environment holds a valid one
C16_WitnessInvalidArgument ==
    /\ last.op = "construct" /\ last.exc = "ValueError"
    /\ Truthy(given.project_id) /\ ~IsUUID(given.project_id.str)
    /\ Truthy(given.environ.project_id)
    /\ IsUUID(given.environ.project_id.str)
    /\ Truthy(given.api_key)

\* C17: every request sent (create, release, list, downloads, debug, logs,
\* recording; sync and async) carries the x-bb-api-key header with the API
\* key resolved at construction, and the client's API key and project id stay
\* what the construction resolved.
C17_ApiKeyOnEveryRequest ==
    /\ \A i \in DOMAIN requests :
         /\ <<"x-bb-api-key", BrowserbaseCoreInit(given).api_key>>
              \in requests[i].headers
         /\ \A h \in requests[i].headers :
              h[1] = "x-bb-api-key" => h[2] = BrowserbaseCoreInit(given).api_key
    /\ api_key = BrowserbaseCoreInit(given).api_key
    /\ project_id = BrowserbaseCoreInit(given).project_id

\* C17 witness: an asynchronous session has sent a create, a recording and a
\* release request
C17_Witness ==
    /\ style = "async" /\ Len(requests) = 3
    /\ requests[1].op = "create" /\ requests[2].op = "recording"
    /\ requests[3].op = "release"
    /\ \A i \in 1..3 : <<"x-bb-api-key", API_KEY>> \in requests[i].headers

\* C17 witness of the listing: the client has sent a list request
C17_WitnessList ==
    /\ Len(requests) = 1 /\ requests[1].op = "list"
    /\ <<"x-bb-api-key", API_KEY>> \in requests[1].headers

\* The requests made for one session
SessionScoped == {"release", "downloads", "debug", "logs", "recording"}

\* C18: every request made for a session with a non-empty id (release,
\* downloads, debug, logs, recording) carries, next to the API key, a
\* session-id header with that id, and so do the headers of the Selenium
\* remote connection of a started session.
C18_SessionIdOnSessionCalls ==
    /\ \A i \in DOMAIN requests :
         (requests[i].op \in SessionScoped /\ requests[i].url[2] # "")
           => /\ <<"session-id", requests[i].url[2]>> \in requests[i].headers
              /\ <<"x-bb-api-key", api_key>> \in requests[i].headers
    /\ api_response # None
         => {<<"session-id", api_response.id>>, <<"x-bb-api-key", api_key>>}
              \subseteq get_remote_connection_headers(api_response)

\* C19: every request goes to the one base URL
\* https://www.browserbase.com/v1/sessions: create and list to the base,
\* release to base/{id}, downloads, debug, logs and recording to
\* base/{id}/<name>, for the sync session, the async session and the client.
C19_OneBaseUrl ==
    \A i \in DOMAIN requests :
        LET r == requests[i]
        IN  /\ r.url[1] = "https://www.browserbase.com/v1/sessions"
            /\ r.op \in {"create", "list"} => Len(r.url) = 1
            /\ r.op = "create" => r.method = "POST"
            /\ r.op = "list" => r.method = "GET"
            /\ r.op = "release" => Len(r.url) = 2 /\ r.method = "POST"
            /\ r.op \in {"downloads", "debug", "logs", "recording"}
                 => Len(r.url) = 3 /\ r.url[3] = r.op /\ r.method = "GET"

\* C20: list_sessions / alist_sessions with status filter S send one GET to
\* the sessions base URL with the query status=S, and no query without a
\* filter; they return one session per element of the response, in the
\* response's order, whose id, created_at and status are the element's.
C20_ListOneSessionPerElement ==
    [][ last'.op = "list_sessions"
          => /\ Len(requests') = Len(requests) + 1
             /\ LET r == requests'[Len(requests')]
                IN  /\ r.method = "GET"
                    /\ r.url = <<SESSIONS_URL>>
                    /\ r.params \in {{}} \cup {{<<"status", st>>} : st \in Statuses}
             /\ last'.resps[1].kind = "list"
                  => /\ last'.exc = NoExc
                     /\ Len(returned'.sessions) = Len(last'.resps[1].body)
                     /\ \A i \in DOMAIN returned'.sessions :
                          LET rec == returned'.sessions[i].api_response
                              elem == last'.resps[1].body[i]
                          IN  /\ Id(rec) = elem.id
                              /\ CreatedAt(rec) = elem.createdAt
                              /\ Status(rec) = Str(elem.status)
      ]_vars

\* What a server reads from an escaped text: "+" is a space, %XX the
\* character of that code
RECURSIVE unquote_plus(_)
unquote_plus(text) ==
    IF text = "" THEN ""
    ELSE IF SubSeq(text, 1, 1) = "+"
         THEN " " \o unquote_plus(SubSeq(text, 2, Len(text)))
    ELSE IF SubSeq(text, 1, 1) = "%" /\ Len(text) >= 3
            /\ \E i \in DOMAIN ReservedHex : ReservedHex[i] = SubSeq(text, 2, 3)
         THEN LET i == CHOOSE j \in DOMAIN ReservedHex :
                         ReservedHex[j] = SubSeq(text, 2, 3)
              IN  SubSeq(Reserved, i, i)
                    \o unquote_plus(SubSeq(text, 4, Len(text)))
    ELSE SubSeq(text, 1, 1) \o unquote_plus(SubSeq(text, 2, Len(text)))

\* The query parameters a server reads from a URL: the name and value of each
\* "&"-separated piece after the "?"
QueryParameters(url) ==
    LET query == SubSeq(url, IndexOf("?", url) + 1, Len(url))
        pieces == SplitOn(query, "&")
    IN  [i \in DOMAIN pieces |->
           LET eq == IndexOf("=", pieces[i])
           IN  <<unquote_plus(SubSeq(pieces[i], 1, eq - 1)),
                 unquote_plus(SubSeq(pieces[i], eq + 1, Len(pieces[i])))>>]

\* How many of the parameters have the given name
CountNamed(params, name) ==
    Cardinality({i \in DOMAIN params : params[i][1] = name})

\* C21: get_cdp_url sends nothing and attaches nothing; the URL it builds is
\* the CDP address followed by "?" and the query parameters; the parameter
\* apiKey is there once with the client's API key; with a session the
\* parameter sessionId is there once with the session's id; without a session
\* there is no sessionId parameter, and without extra arguments apiKey is the
\* only parameter.
C21_CdpUrlParameters ==
    [][ last'.op = "get_cdp_url"
          => LET url == returned'.str
                 params == QueryParameters(url)
             IN  /\ requests' = requests /\ driver' = driver
                 /\ SubSeq(url, 1, Len(SESSION_CDP_URL) + 1)
                      = SESSION_CDP_URL \o "?"
                 /\ CountNamed(params, "apiKey") = 1
                 /\ \E i \in DOMAIN params : params[i] = <<"apiKey", api_key>>
                 /\ last'.has_session
                      => /\ CountNamed(params, "sessionId") = 1
                         /\ \E i \in DOMAIN params :
                              params[i] = <<"sessionId", last'.id>>
                 /\ ~last'.has_session
                      => /\ CountNamed(params, "sessionId") = 0
                         /\ last'.kwargs = <<>> => Len(params) = 1
      ]_vars

\* C21 witness: the URL was built for a started session by a client whose API
\* key needs escaping
C21_Witness ==
    /\ last.op = "get_cdp_url" /\ last.has_session /\ last.id = "s1"
    /\ api_key = "key &=+1"
    /\ returned = Str("wss://connect.browserbase.com?apiKey=key+%26%3D%2B1&sessionId=s1")

\* C21 witness without a session
C21_WitnessNoSession ==
    /\ last.op = "get_cdp_url" /\ ~last.has_session /\ last.kwargs = <<>>
    /\ returned = Str("wss://connect.browserbase.com?apiKey=" \o API_KEY)

\* C22: the URL handed to connect_over_cdp is exactly
\* wss://www.browserbase.com?apiKey=<api key>&sessionId=<id the create call
\* returned> in session() / asession(), and exactly
\* wss://www.browserbase.com?apiKey=<api key> in page() / apage() without
\* proxy.
C22_CdpUrlHandedToPlaywright ==
    /\ (scope = "playwright" /\ last.op = "enter" /\ last.cdp_url # "")
         => last.cdp_url = "wss://www.browserbase.com?apiKey=" \o api_key
                             \o "&sessionId=" \o last.resps[1].body.id
    /\ (scope = "page" /\ last.op = "page" /\ last.arg = "False")
         => last.cdp_url = "wss://www.browserbase.com?apiKey=" \o api_key

\* C23: the driver handle of a session (page, driver) is write-once: a read
\* before any assignment raises, the first assignment succeeds and stores the
\* handle, a later assignment raises and leaves the stored handle as it was,
\* a read after the first assignment returns the stored handle, and no other
\* operation changes a stored handle.
C23_DriverHandleWriteOnce ==
    [][ /\ last'.op = "read_driver"
             => /\ driver' = driver
                /\ driver = "None" => last'.exc = "RuntimeError"
                /\ driver # "None"
                     => last'.exc = NoExc /\ last'.ret = driver
        /\ last'.op = "assign_driver"
             => /\ driver = "None"
                     => last'.exc = NoExc /\ driver' = last'.arg
                /\ driver # "None"
                     => last'.exc = "RuntimeError" /\ driver' = driver
        /\ driver # "None" => driver' = driver
      ]_vars

\* C23 witness: a second assignment was refused after a first one of another
\* handle succeeded
C23_Witness ==
    /\ last.op = "assign_driver" /\ last.exc = "RuntimeError"
    /\ driver # "None" /\ last.arg # driver

\* C23 witness of the reads: one has failed on an unset handle
C23_WitnessUnsetRead ==
    last.op = "read_driver" /\ last.exc = "RuntimeError" /\ driver = "None"

\* The browser settings of the session options, and one member of them
BrowserSettingsOfSession == GetAttr(session_options, "browser_settings")
SettingsMember(name) ==
    IF BrowserSettingsOfSession = None THEN None
    ELSE GetAttr(BrowserSettingsOfSession, name)

\* The options of a session that was built fold viewport and fingerprint into
\* the browser settings
FoldedOptions ==
    LET g == options_given
        d == SessionOptionsDump
    IN  /\ DOMAIN session_options.fields \cap {"viewport", "fingerprint"} = {}
        /\ DOMAIN d \cap {"viewport", "fingerprint"} = {}
        /\ g.viewport # None
             => /\ SettingsMember("viewport") = g.viewport
                /\ "browserSettings" \in DOMAIN d
                /\ "viewport" \in DOMAIN d.browserSettings
                /\ d.browserSettings.viewport = model_dump(g.viewport)
        /\ g.fingerprint # None
             => /\ SettingsMember("fingerprint") = g.fingerprint
                /\ "browserSettings" \in DOMAIN d
                /\ "fingerprint" \in DOMAIN d.browserSettings
                /\ d.browserSettings.fingerprint = model_dump(g.fingerprint)
        /\ (g.browser_settings # None /\ g.viewport # None
               /\ g.fingerprint = None)
             => SettingsMember("fingerprint")
                  = GetAttr(g.browser_settings, "fingerprint")
        /\ (g.browser_settings # None /\ g.fingerprint # None
               /\ g.viewport = None)
             => SettingsMember("viewport")
                  = GetAttr(g.browser_settings, "viewport")
        /\ (g.browser_settings = None /\ g.viewport = None
               /\ g.fingerprint = None)
             => /\ BrowserSettingsOfSession = None
                /\ "browserSettings" \notin DOMAIN d

\* C24: in the options a session is built with and create sends, viewport and
\* fingerprint are never top-level fields; the browser settings hold the
\* supplied viewport and fingerprint; a supplied browser_settings keeps its
\* other member when only one of the two is given; with none of the three
\* there are no browser settings; and building the session leaves the caller's
\* browser_settings object as it was.
C24_ViewportFingerprintFolded ==
    [][ /\ options_given' = options_given
        /\ last'.op = "new_session" => FoldedOptions'
        /\ session_options # None => session_options' = session_options
        /\ \A i \in DOMAIN requests' \ DOMAIN requests :
             requests'[i].op = "create"
               => requests'[i].body = model_dump(session_options)
      ]_vars

\* C24 witness: a create request was sent for a session built from a viewport
\* and from browser settings that held another viewport and a fingerprint
C24_Witness ==
    /\ requests # <<>> /\ requests[1].op = "create"
    /\ options_given.viewport # None /\ options_given.fingerprint = None
    /\ options_given.browser_settings # None
    /\ GetAttr(options_given.browser_settings, "fingerprint") # None
    /\ GetAttr(options_given.browser_settings, "viewport")
         \notin {None, options_given.viewport}
    /\ requests[1].body.browserSettings.viewport
         = model_dump(options_given.viewport)
    /\ "fingerprint" \in DOMAIN requests[1].body.browserSettings

\* C26: the blocking and the suspension style are equivalent: for the same
\* client, options, enable_proxy, record and server response, start() and
\* end() of SyncSession and of AsyncSession send the same requests (method,
\* URL, headers, body), raise and return the same, and leave the same record.
C26_StylesEquivalent ==
    pc = "body"
      => /\ \A out \in CreateOutcomes :
              Start("sync", api_response, out)
                = Start("async", api_response, out)
         /\ \A out \in ReleaseOutcomes(Id(api_response)) :
              End("sync", api_response, out) = End("async", api_response, out)

\* The auxiliary reads and the listing calls
ReadOps ==
    {"get_zipped_downloads", "get_live_urls", "get_logs", "get_recording",
     "list_sessions"}

\* C30: get_zipped_downloads, get_live_urls, get_logs, get_recording and the
\* listing calls leave the record and the implicit_end flag of the session as
\* they were, whether they succeed or fail; get_zipped_downloads writes the
\* body of the response to the file handle when the status is a success and
\* writes nothing when the request fails; the other calls write nothing.
C30_ReadsChangeNothing ==
    [][ last'.op \in ReadOps
          => /\ api_response' = api_response
             /\ implicit_end' = implicit_end
             /\ (last'.op = "get_zipped_downloads"
                   /\ last'.resps[1].kind # "http_error")
                  => /\ last'.exc = NoExc
                     /\ file_io' = Append(file_io, Content(last'.resps[1]))
             /\ (last'.op = "get_zipped_downloads"
                   /\ last'.resps[1].kind = "http_error")
                  => last'.exc # NoExc /\ file_io' = file_io
             /\ last'.op # "get_zipped_downloads" => file_io' = file_io
      ]_vars

\* C30 witness: a download failed on a started session and nothing was
\* written
C30_Witness ==
    /\ last.op = "get_zipped_downloads" /\ last.exc = "HTTPStatusError"
    /\ api_response # None /\ file_io = <<>>

\* C30 witness of the success: the body was written
C30_WitnessWritten ==
    /\ last.op = "get_zipped_downloads" /\ last.exc = NoExc
    /\ file_io = <<Content(last.resps[1])>>

\* C27: when start() fails on entry to a scoped session (plain or through a
\* driver adapter), the error of start() reaches the caller, the body is
\* never run, no driver is attached, no release request is sent and the
\* record of the session stays absent.
C27_FailedStartSkipsBodyAndRelease ==
    [][ (scope \in Managed /\ last'.op = "enter"
           /\ last'.resps[1].kind # "ok")
          => /\ last'.exc = ResponseError(last'.resps[1])
             /\ last'.exc \in CallErrors
             /\ pc' = "done"
             /\ requests' = Append(requests, CreateRequest(style))
             /\ ReleaseCount(requests') = 0
             /\ api_response' = None
             /\ driver' = "None" /\ last'.cdp_url = ""
      ]_vars

\* C27 witness: the entry of a Playwright scope has failed in start()
C27_Witness ==
    /\ scope = "playwright" /\ last.op = "enter" /\ pc = "done"
    /\ last.exc = "HTTPStatusError" /\ api_response = None
    /\ Len(requests) = 1

\* C27 witness for the plain scope
C27_WitnessPlain ==
    /\ scope = "plain" /\ last.op = "enter" /\ pc = "done"
    /\ last.exc = "ValidationError" /\ api_response = None

\* C28: when the driver cannot be attached after the session was started
\* (connect_over_cdp raises in the Playwright adapter, get_driver raises in the
\* Selenium adapter), the adapter does not set implicit_end, the manager sends
\* the release request for the started session before an error reaches the
\* caller, and the body is never run.
C28_AttachFailureReleases ==
    [][ (scope \in {"playwright", "selenium"} /\ last'.op = "enter"
           /\ last'.resps[1].kind = "ok"
           /\ last'.arg \in {"connect_raises", "get_driver_raises"})
          => /\ pc' = "done" /\ driver' = "None"
             /\ last'.exc # NoExc
             /\ requests' = requests
                               \o <<CreateRequest(style),
                                    ReleaseRequest(style, last'.resps[1].body)>>
      ]_vars

\* C29: on exit of a Selenium scope driver.quit() is called once; when it
\* returns or raises KeyError the KeyError is swallowed, implicit_end is set
\* and no release request follows; when it raises another error and the flag
\* was not set, the adapter leaves the flag alone, the manager sends the
\* release request, and the caller gets the quit error (or the error of the
\* release request).
C29_SeleniumQuit ==
    [][ (scope = "selenium" /\ last'.op = "exit")
          => /\ last'.quit \in QuitOutcomes
             /\ last'.quit \in {"ok", "KeyError"}
                  => /\ implicit_end' = TRUE
                     /\ requests' = requests
                     /\ last'.exc = last'.body_exc
             /\ (last'.quit = "WebDriverException" /\ ~implicit_end)
                  => /\ requests'
                          = Append(requests, ReleaseRequest(style, api_response))
                     /\ ~implicit_end'
                     /\ last'.exc \in {"WebDriverException"} \cup CallErrors
      ]_vars

\* What one of the two session objects holds: its record, its implicit_end
\* flag, its session options, its enable_proxy and its page
SessionView(objs, who) ==
    [api_response |-> Attr(objs, who, "api_response"),
     implicit_end |-> Attr(objs, who, "implicit_end"),
     session_options |-> Attr(objs, who, "session_options"),
     enable_proxy |-> Attr(objs, who, "enable_proxy"),
     page |-> Attr(objs, who, "page")]

\* C25: session objects are independent: an operation on one of two session
\* objects (start, end, a read or an assignment of implicit_end, an assignment
\* of the page, an auxiliary read) leaves the record, the implicit_end flag,
\* the session options and the page of the other one as they were.
C25_SessionsIndependent ==
    [][ \A who \in Who :
          last'.arg = who
            => \A w \in Who \ {who} :
                 SessionView(objects', w) = SessionView(objects, w)
      ]_vars

\* C25 witness: one session was started, flagged and given a page while the
\* other one still reads the defaults of the class
C25_Witness ==
    /\ Attr(objects, "a", "api_response") # None
    /\ Attr(objects, "a", "implicit_end") = TRUE
    /\ Attr(objects, "a", "page") = "page"
    /\ SessionView(objects, "b")
         = [api_response |-> None, implicit_end |-> FALSE,
            session_options |-> session_options, enable_proxy |-> FALSE,
            page |-> "None"]

====
